---- MODULE Spec2Model ----
(***************************************************************************)
(* A model of the stock-scanner repository: the FinancialJuice token       *)
(* manager (single in-flight refresh), the options-signal pipeline         *)
(* (filter, combo detection, hedge score, sentiment aggregation) and the   *)
(* value analyzer.  Every subsystem has its own variables, its own         *)
(* initial predicate and next-state relation, and its own specification.   *)
(*                                                                         *)
(* Numbers.  The code computes in IEEE doubles.  The model uses integers:  *)
(* weights and scores are kept in fixed point (the unit is named at each   *)
(* definition), times of the token manager are in units of 1000 ms.        *)
(***************************************************************************)
EXTENDS Integers, Sequences, FiniteSets, Bags, TLC

VARIABLES
  tmStore,          \* token manager: the token state held in the KV store
  tmNow,            \* token manager: Date.now(), in units of 1000 ms
  tmRefreshPromise, \* token manager: this.refreshPromise (0 = null, else attempt id)
  tmAttempts,       \* token manager: the performRefresh invocations, by id
  tmCallers,        \* token manager: the callers, as a bag of their states (callers are alike)
  cbSpot,           \* options scan: rmp, the regular market price of the underlying
  cbObjs,           \* options scan: the signal objects, in the order of `candidates`
  cbSignals,        \* options scan: the `signals` list, as indices into cbObjs
  cbPrev,           \* options scan: the signal objects before the last identifyCombos call
  cbPhase,          \* options scan: where scanSymbolOptions stands
  hgSignals,        \* hedge score: the signals handed to computeHedgeScoreForSignal
  hgFlow,           \* hedge score: moneyFlowStrength, in hundredths
  hgPhase,          \* hedge score: "given" before the call, "scored" after it
  snSignals,        \* sentiment: the signal list the sentiment functions are called with
  snCfg,            \* sentiment: the config of computeExtendedSentiment, policy apart
  snBase,           \* sentiment: <<result of aggregateSentiment>>, <<>> before the call
  snExt,            \* sentiment: per aggregation policy, <<result of computeExtendedSentiment>>
  vaQuote,          \* value analyzer: the fields of the quoteSummary answer
  vaSymbol,         \* value analyzer: [china, sector] of the symbol analysed
  vaResult,         \* value analyzer: per implementation, <<result of analyzeStockValue>>
  scMarketState,    \* freshness: marketState of the quote
  scCfg,            \* freshness: scanCfg, its two window overrides
  scChain,          \* freshness: the contracts of the option chain
  scWindow,         \* freshness: freshWindowMins, 0 before it is computed
  scCandidates,     \* freshness: the contracts that became signal objects
  scPhase,          \* freshness: "start", "windowed", "processed"
  dcQuote,          \* direction: the contract being processed
  dcResult,         \* direction: <<[direction, confidence]>>, <<>> without one
  dcPhase,          \* direction: "start", "skipped", "done"
  rtImpl,           \* retry: "retry" (util.ts) or "withRetry" (news utils)
  rtRetries,        \* retry: the attempt count asked for
  rtI,              \* retry: the loop variable (i from 0, attempt from 1)
  rtDelayMs,        \* retry: the current delayMs
  rtLastError,      \* retry: lastError, <<>> while undefined
  rtHistory,        \* retry: the outcome of each invocation so far
  rtDelays,         \* retry: the delays waited so far
  rtResult,         \* retry: <<>> while pending, then <<[kind, v]>>
  rtPc,             \* retry: "loop", "sleep", "done"
  toMs,             \* timeout: the ms of the call
  toNow,            \* timeout: time since the call
  toInner,          \* timeout: the wrapped promise, <<>> while pending
  toTimer,          \* timeout: "armed", "fired", "cleared"
  toReaction,       \* timeout: the queued reaction: "none", "then", "catch"
  toOuter,          \* timeout: the returned promise, <<>> while pending
  toCalls,          \* timeout: the resolve/reject calls made on it, in order
  toEvents,         \* timeout: the settlement of p and the timer firing, in order
  svCache,          \* save: the cache entry options_<symbol>, <<>> when absent
  svResult,         \* save: the signals of the scan result, <<>> before the scan
  svCombos,         \* save: the combos extracted by saveScanResult
  svTx,             \* save: the rows written inside the open transaction
  svDb,             \* save: the committed rows
  svLogged,         \* save: the failures logged by saveScanResult
  svSave,           \* save: the promise of saveScanResult
  svResponse,       \* save: the HTTP response, <<>> before
  svPc,             \* save: the position of the handler
  bsMarket,         \* batch: 'US' or 'CN'
  bsSymbols,        \* batch: the symbols to scan
  bsAttempts,       \* batch: the symbols attempted so far with their outcome
  bsLogged,         \* batch: the per-symbol and the critical errors logged
  bsSector,         \* batch: the calls of captureDailySectorStats with the attempts before each
  bsOutcome,        \* batch: the promise of runDailyBatchScan
  bsPc,             \* batch: "fetch", "loop", "done"
  ssDay,            \* sector stats: the current day
  ssDb,             \* sector stats: the committed SectorStat rows
  ssRun,            \* sector stats: day, rows before and outcome of the latest run
  ssStats,          \* sector stats: statsToSave of the run
  ssTx,             \* sector stats: the table as the open transaction sees it
  ssI,              \* sector stats: the loop variable of the inserts
  ssRuns,           \* sector stats: the runs started
  ssPc,             \* sector stats: "idle", "delete", "create"
  mfPeriod,         \* money flow: periodDays
  mfChart,          \* money flow: what fetchDirectChart gives
  mfResult,         \* money flow: <<>> while pending, then <<[kind, v]>>
  pfAlways,         \* prefilter: config.alwaysInclude
  pfSymbols,        \* prefilter: the symbols given
  pfMax,            \* prefilter: config.maxSymbols
  pfResults,        \* prefilter: the symbols of `results`
  pfI,              \* prefilter: the loop variable of the batches
  pfBatches,        \* prefilter: the outcome of each batch attempted
  pfEarly,          \* prefilter: the early exit was taken
  pfFiltered,       \* prefilter: `filtered`, once returned
  pfPc,             \* prefilter: "batches", "earnings", "done"
  psObjs,           \* passes: the signal objects identifyCombos works on
  psBucket,         \* passes: the position in byExpiry
  psPhase,          \* passes: "straddles", "verticals", "calendars", "done"
  ttSoft,           \* token TTLs: this.softTtlMs, in units of 1000 ms
  ttHard,           \* token TTLs: this.hardTtlMs
  ttNow,            \* token TTLs: Date.now()
  ttStore,          \* token TTLs: the stored state, <<>> for none
  ttLast,           \* token TTLs: the last write, "none", "set", "refreshed", "degraded"
  rqPc,             \* requestJson: "token", "first", "refresh", "second", "done"
  rqAttempt,        \* requestJson: `attempt` of the withRetry loop of the httpGet in progress
  rqSleeping,       \* requestJson: that loop is in its sleep
  rqLog,            \* requestJson: the calls made so far
  rqResult,         \* requestJson: "none", "payload", "error"
  kvFile,           \* KV store: the file, [state: "absent", "json", "corrupt"; data: its entries]
  kvProgram,        \* KV store: the put and delete calls the callers will make, in order
  kvOps             \* KV store: the calls made, each with where its work stands

tokVars == <<tmStore, tmNow, tmRefreshPromise, tmAttempts, tmCallers>>
cbVars == <<cbSpot, cbObjs, cbSignals, cbPrev, cbPhase>>
hgVars == <<hgSignals, hgFlow, hgPhase>>
snVars == <<snSignals, snCfg, snBase, snExt>>
vaVars == <<vaQuote, vaSymbol, vaResult>>
scVars == <<scMarketState, scCfg, scChain, scWindow, scCandidates, scPhase>>
dcVars == <<dcQuote, dcResult, dcPhase>>
kvVars == <<kvFile, kvProgram, kvOps>>
rqVars == <<rqPc, rqAttempt, rqSleeping, rqLog, rqResult>>
ttVars == <<ttSoft, ttHard, ttNow, ttStore, ttLast>>
psVars == <<psObjs, psBucket, psPhase>>
pfVars == <<pfAlways, pfSymbols, pfMax, pfResults, pfI, pfBatches, pfEarly, pfFiltered, pfPc>>
mfVars == <<mfPeriod, mfChart, mfResult>>
ssVars == <<ssDay, ssDb, ssRun, ssStats, ssTx, ssI, ssRuns, ssPc>>
bsVars == <<bsMarket, bsSymbols, bsAttempts, bsLogged, bsSector, bsOutcome, bsPc>>
svVars == <<svCache, svResult, svCombos, svTx, svDb, svLogged, svSave, svResponse, svPc>>
toVars == <<toMs, toNow, toInner, toTimer, toReaction, toOuter, toCalls, toEvents>>
rtVars == <<rtImpl, rtRetries, rtI, rtDelayMs, rtLastError, rtHistory, rtDelays, rtResult, rtPc>>

vars == <<tmStore, tmNow, tmRefreshPromise, tmAttempts, tmCallers,
          cbSpot, cbObjs, cbSignals, cbPrev, cbPhase,
          hgSignals, hgFlow, hgPhase,
          snSignals, snCfg, snBase, snExt,
          vaQuote, vaSymbol, vaResult,
          scMarketState, scCfg, scChain, scWindow, scCandidates, scPhase,
          dcQuote, dcResult, dcPhase,
          rtImpl, rtRetries, rtI, rtDelayMs, rtLastError, rtHistory, rtDelays, rtResult, rtPc,
          toMs, toNow, toInner, toTimer, toReaction, toOuter, toCalls, toEvents,
          svCache, svResult, svCombos, svTx, svDb, svLogged, svSave, svResponse, svPc,
          bsMarket, bsSymbols, bsAttempts, bsLogged, bsSector, bsOutcome, bsPc,
          ssDay, ssDb, ssRun, ssStats, ssTx, ssI, ssRuns, ssPc,
          mfPeriod, mfChart, mfResult,
          pfAlways, pfSymbols, pfMax, pfResults, pfI, pfBatches, pfEarly, pfFiltered, pfPc,
          psObjs, psBucket, psPhase,
          ttSoft, ttHard, ttNow, ttStore, ttLast,
          rqPc, rqAttempt, rqSleeping, rqLog, rqResult,
          kvFile, kvProgram, kvOps>>

(***************************************************************************)
(* Generic helpers                                                         *)
(***************************************************************************)
Max(a, b) == IF a >= b THEN a ELSE b
Min(a, b) == IF a <= b THEN a ELSE b
Abs(a) == IF a >= 0 THEN a ELSE -a

(***************************************************************************)
(*                    FinancialJuiceTokenManager                           *)
(***************************************************************************)
\* Bounds of the token-manager model.
NCallers == 2        \* callers of the manager, each making one call
MaxAttempts == 2     \* performRefresh invocations per run
MaxTicks == 1        \* clock advances per run

\* Program constants, in units of 1000 ms.
MIN_SOFT_TTL == 60               \* Math.max(..., 60_000)
MIN_HARD_GAP == 60               \* Math.max(..., softTtlMs + 60_000)
MIN_REFRESH_INTERVAL_FLOOR == 1  \* Math.max(..., 1_000)

\* The configuration the model runs the manager with: the smallest values the
\* constructor's clamps let through (config.softTtlMs = config.hardTtlMs =
\* config.minRefreshIntervalMs = 0).
SoftTtl == Max(0, MIN_SOFT_TTL)
HardTtl == Max(0, SoftTtl + MIN_HARD_GAP)
MinRefreshInterval == Max(0, MIN_REFRESH_INTERVAL_FLOOR)

Reasons == {"forced", "missing", "hard-expired", "soft-expired", "auth-failed", "startup"}
ForcedReasons == {"forced", "hard-expired", "auth-failed", "missing"}
TickSteps == {MinRefreshInterval, SoftTtl}

\* A token state; token = 0 stands for "no usable state" (loadState returns null).
NoState ==
  [token |-> 0, obtainedAt |-> 0, softExpireAt |-> 0, hardExpireAt |-> 0,
   lastRefreshAt |-> 0, refreshFailures |-> 0]

NoResult == [kind |-> "none", state |-> NoState]

IdleCaller ==
  [pc |-> "idle", force |-> FALSE, reason |-> "forced", snap |-> NoState,
   awaits |-> 0, inFlightAtCall |-> 0, viaRefresh |-> FALSE, result |-> NoResult]

\* A token stored before the run starts, by a refresh at time 0.
StoredToken ==
  [token |-> MaxAttempts + 1, obtainedAt |-> 0, softExpireAt |-> SoftTtl,
   hardExpireAt |-> HardTtl, lastRefreshAt |-> 0, refreshFailures |-> 0]

\* The token manager at rest, for the specifications of the other subsystems.
TokIdle ==
  /\ tmStore = NoState
  /\ tmNow = 0
  /\ tmRefreshPromise = 0
  /\ tmAttempts = <<>>
  /\ tmCallers = EmptyBag

\* The options scan before it starts, for the specifications of the other subsystems.
CbIdle ==
  /\ cbSpot = 0
  /\ cbObjs = <<>>
  /\ cbSignals = <<>>
  /\ cbPrev = <<>>
  /\ cbPhase = "off"

\* The hedge scoring before it is called.
HgIdle ==
  /\ hgSignals = {}
  /\ hgFlow = 0
  /\ hgPhase = "off"

\* The sentiment functions before they are called.
SnIdle ==
  /\ snSignals = <<>>
  /\ snCfg = <<>>
  /\ snBase = <<>>
  /\ snExt = <<>>

\* The value analyzer before it is called.
VaIdle ==
  /\ vaQuote = <<>>
  /\ vaSymbol = <<>>
  /\ vaResult = <<>>

\* The freshness gate of the scan before the scan starts.
ScIdle ==
  /\ scMarketState = ""
  /\ scCfg = <<>>
  /\ scChain = <<>>
  /\ scWindow = 0
  /\ scCandidates = <<>>
  /\ scPhase = "off"

\* The direction detection before a contract is processed.
DcIdle ==
  /\ dcQuote = <<>>
  /\ dcResult = <<>>
  /\ dcPhase = "off"

\* The retry wrappers before a call.
RtIdle ==
  /\ rtImpl = ""
  /\ rtRetries = 0
  /\ rtI = 0
  /\ rtDelayMs = 0
  /\ rtLastError = <<>>
  /\ rtHistory = <<>>
  /\ rtDelays = <<>>
  /\ rtResult = <<>>
  /\ rtPc = "off"

\* The timeout wrapper before a call.
ToIdle ==
  /\ toMs = 0
  /\ toNow = 0
  /\ toInner = <<>>
  /\ toTimer = "off"
  /\ toReaction = "none"
  /\ toOuter = <<>>
  /\ toCalls = <<>>
  /\ toEvents = <<>>

\* The options endpoint before a request.
SvIdle ==
  /\ svCache = <<>>
  /\ svResult = <<>>
  /\ svCombos = {}
  /\ svTx = <<>>
  /\ svDb = <<>>
  /\ svLogged = 0
  /\ svSave = "none"
  /\ svResponse = <<>>
  /\ svPc = "off"

\* The scheduler before a batch.
BsIdle ==
  /\ bsMarket = ""
  /\ bsSymbols = <<>>
  /\ bsAttempts = <<>>
  /\ bsLogged = <<>>
  /\ bsSector = <<>>
  /\ bsOutcome = "none"
  /\ bsPc = "off"

\* The sector statistics before any run.
SsIdle ==
  /\ ssDay = 0
  /\ ssDb = <<>>
  /\ ssRun = <<>>
  /\ ssStats = <<>>
  /\ ssTx = <<>>
  /\ ssI = 0
  /\ ssRuns = 0
  /\ ssPc = "off"

\* The money flow strength before a call.
MfIdle ==
  /\ mfPeriod = 0
  /\ mfChart = <<>>
  /\ mfResult = <<>>

\* The prefilter before a call.
PfIdle ==
  /\ pfAlways = <<>>
  /\ pfSymbols = <<>>
  /\ pfMax = 0
  /\ pfResults = <<>>
  /\ pfI = 0
  /\ pfBatches = <<>>
  /\ pfEarly = FALSE
  /\ pfFiltered = <<>>
  /\ pfPc = "off"

\* The passes of identifyCombos before a call.
PsIdle ==
  /\ psObjs = <<>>
  /\ psBucket = 0
  /\ psPhase = "off"

\* The TTL arithmetic of the token manager before construction.
TtIdle ==
  /\ ttSoft = 0
  /\ ttHard = 0
  /\ ttNow = 0
  /\ ttStore = <<>>
  /\ ttLast = "off"

\* The news client before a request.
RqIdle ==
  /\ rqPc = "off"
  /\ rqAttempt = 0
  /\ rqSleeping = FALSE
  /\ rqLog = <<>>
  /\ rqResult = "none"

\* The KV store before it is constructed.
KvIdle ==
  /\ kvFile = <<>>
  /\ kvProgram = <<>>
  /\ kvOps = <<>>

\* Each subsystem is specified on its own: the other subsystems are at rest at
\* the start and its steps leave their variables alone.
RestIdle(own) ==
  /\ (IF own = "tok" THEN TRUE ELSE TokIdle)
  /\ (IF own = "cb" THEN TRUE ELSE CbIdle)
  /\ (IF own = "hg" THEN TRUE ELSE HgIdle)
  /\ (IF own = "sn" THEN TRUE ELSE SnIdle)
  /\ (IF own = "va" THEN TRUE ELSE VaIdle)
  /\ (IF own = "sc" THEN TRUE ELSE ScIdle)
  /\ (IF own = "dc" THEN TRUE ELSE DcIdle)
  /\ (IF own = "rt" THEN TRUE ELSE RtIdle)
  /\ (IF own = "to" THEN TRUE ELSE ToIdle)
  /\ (IF own = "sv" THEN TRUE ELSE SvIdle)
  /\ (IF own = "bs" THEN TRUE ELSE BsIdle)
  /\ (IF own = "ss" THEN TRUE ELSE SsIdle)
  /\ (IF own = "mf" THEN TRUE ELSE MfIdle)
  /\ (IF own = "pf" THEN TRUE ELSE PfIdle)
  /\ (IF own = "ps" THEN TRUE ELSE PsIdle)
  /\ (IF own = "tt" THEN TRUE ELSE TtIdle)
  /\ (IF own = "rq" THEN TRUE ELSE RqIdle)
  /\ (IF own = "kv" THEN TRUE ELSE KvIdle)

Rest(own) ==
  /\ (IF own = "tok" THEN TRUE ELSE UNCHANGED tokVars)
  /\ (IF own = "cb" THEN TRUE ELSE UNCHANGED cbVars)
  /\ (IF own = "hg" THEN TRUE ELSE UNCHANGED hgVars)
  /\ (IF own = "sn" THEN TRUE ELSE UNCHANGED snVars)
  /\ (IF own = "va" THEN TRUE ELSE UNCHANGED vaVars)
  /\ (IF own = "sc" THEN TRUE ELSE UNCHANGED scVars)
  /\ (IF own = "dc" THEN TRUE ELSE UNCHANGED dcVars)
  /\ (IF own = "rt" THEN TRUE ELSE UNCHANGED rtVars)
  /\ (IF own = "to" THEN TRUE ELSE UNCHANGED toVars)
  /\ (IF own = "sv" THEN TRUE ELSE UNCHANGED svVars)
  /\ (IF own = "bs" THEN TRUE ELSE UNCHANGED bsVars)
  /\ (IF own = "ss" THEN TRUE ELSE UNCHANGED ssVars)
  /\ (IF own = "mf" THEN TRUE ELSE UNCHANGED mfVars)
  /\ (IF own = "pf" THEN TRUE ELSE UNCHANGED pfVars)
  /\ (IF own = "ps" THEN TRUE ELSE UNCHANGED psVars)
  /\ (IF own = "tt" THEN TRUE ELSE UNCHANGED ttVars)
  /\ (IF own = "rq" THEN TRUE ELSE UNCHANGED rqVars)
  /\ (IF own = "kv" THEN TRUE ELSE UNCHANGED kvVars)

TokInit ==
  /\ tmStore \in {NoState, StoredToken}
  /\ tmNow = 0
  /\ tmRefreshPromise = 0
  /\ tmAttempts = <<>>
  /\ tmCallers = [x \in {IdleCaller} |-> NCallers]
  /\ RestIdle("tok")

\* A performRefresh invocation that has just been called: it runs synchronously
\* up to `await this.loadState()`.
NewAttempt(reason) ==
  [phase |-> "load", reason |-> reason, previous |-> NoState, now |-> 0,
   pending |-> NoState, outcome |-> NoResult]

\* A performRefresh invocation that has settled with `outcome`; its locals are gone.
Settled(reason, outcome) ==
  [phase |-> "settled", reason |-> reason, previous |-> NoState, now |-> 0,
   pending |-> NoState, outcome |-> outcome]

\* The number of invocations of this.refresher.refreshToken in progress.
RefresherInProgress ==
  Cardinality({a \in DOMAIN tmAttempts : tmAttempts[a].phase = "refresher"})

\* The callers after the one in state c has moved to state d.
Moved(c, d) == (tmCallers (-) SetToBag({c})) (+) SetToBag({d})

CallersIn == BagToSet(tmCallers)

\* Caller c now awaits attempt `a`; `inFlight` is this.refreshPromise as the call found it.
Awaiting(c, a, inFlight) ==
  Moved(c, [IdleCaller EXCEPT !.pc = "awaitRefresh", !.awaits = a,
                              !.inFlightAtCall = inFlight, !.viaRefresh = TRUE])

\* refreshToken without its guard on this.refreshPromise.
RefreshTokenNoGuard(c, reason) ==
  /\ Len(tmAttempts) < MaxAttempts
  /\ tmAttempts' = Append(tmAttempts, NewAttempt(reason))
  /\ tmRefreshPromise' = Len(tmAttempts) + 1
  /\ tmCallers' = Awaiting(c, Len(tmAttempts) + 1, tmRefreshPromise)

\* refreshToken(reason), as called by caller c: the check of this.refreshPromise
\* and its assignment happen in one synchronous run.
RefreshToken(c, reason) ==
  IF tmRefreshPromise # 0
    THEN /\ tmCallers' = Awaiting(c, tmRefreshPromise, tmRefreshPromise)
         /\ UNCHANGED <<tmAttempts, tmRefreshPromise>>
    ELSE /\ Len(tmAttempts) < MaxAttempts
         /\ tmAttempts' = Append(tmAttempts, NewAttempt(reason))
         /\ tmRefreshPromise' = Len(tmAttempts) + 1
         /\ tmCallers' = Awaiting(c, Len(tmAttempts) + 1, 0)

\* A direct call of refreshToken (FinancialJuiceClient.refreshToken passes
\* 'forced'; the method's parameter admits every reason).
CallRefreshToken(c) ==
  /\ c.pc = "idle"
  /\ \E reason \in {"forced", "soft-expired"} : RefreshToken(c, reason)
  /\ UNCHANGED <<tmStore, tmNow>>

\* getValidToken(options) is called and its loadState reads the store (kv.get).
CallGetValidToken(c) ==
  /\ c.pc = "idle"
  /\ \E opt \in {<<FALSE, "forced">>, <<TRUE, "forced">>, <<TRUE, "startup">>} :
       tmCallers' = Moved(c, [IdleCaller EXCEPT !.pc = "gvtDecide", !.force = opt[1],
                                               !.reason = opt[2], !.snap = tmStore])
  /\ UNCHANGED <<tmStore, tmNow, tmRefreshPromise, tmAttempts>>

\* The background refresh of a soft-expired token: `void this.refreshToken(...)`,
\* nobody awaits it.
BackgroundRefresh ==
  IF tmRefreshPromise # 0
    THEN UNCHANGED <<tmAttempts, tmRefreshPromise>>
    ELSE /\ Len(tmAttempts) < MaxAttempts
         /\ tmAttempts' = Append(tmAttempts, NewAttempt("soft-expired"))
         /\ tmRefreshPromise' = Len(tmAttempts) + 1

\* getValidToken awaiting the refresh of a soft-expired token.
GetValidTokenDecideAwaitsSoft(c) ==
  LET me == c
      state == me.snap
  IN
  /\ me.pc = "gvtDecide"
  /\ IF me.force
       THEN RefreshToken(c, me.reason)
       ELSE IF state.token = 0
         THEN RefreshToken(c, "missing")
         ELSE IF tmNow >= state.hardExpireAt
           THEN RefreshToken(c, "hard-expired")
           ELSE IF tmNow >= state.softExpireAt
             THEN RefreshToken(c, "soft-expired")
             ELSE /\ UNCHANGED <<tmAttempts, tmRefreshPromise>>
                  /\ tmCallers' = Moved(c, [IdleCaller EXCEPT !.pc = "done",
                                        !.result = [kind |-> "token", state |-> state]])
  /\ UNCHANGED <<tmStore, tmNow>>

\* getValidToken after `await this.loadState()`.
GetValidTokenDecide(c) ==
  LET me == c
      state == me.snap
  IN
  /\ me.pc = "gvtDecide"
  /\ IF me.force
       THEN RefreshToken(c, me.reason)
       ELSE IF state.token = 0
         THEN RefreshToken(c, "missing")
         ELSE IF tmNow >= state.hardExpireAt
           THEN RefreshToken(c, "hard-expired")
           ELSE /\ IF /\ tmNow >= state.softExpireAt
                      /\ tmRefreshPromise = 0
                      /\ tmNow - state.lastRefreshAt >= MinRefreshInterval
                     THEN BackgroundRefresh
                     ELSE UNCHANGED <<tmAttempts, tmRefreshPromise>>
                /\ tmCallers' = Moved(c, [IdleCaller EXCEPT !.pc = "done",
                                      !.result = [kind |-> "token", state |-> state]])
  /\ UNCHANGED <<tmStore, tmNow>>

\* performRefresh after `await this.loadState()`: either the non-forced short
\* cut returns the previous state, or the refresher is invoked.
PerformRefreshLoaded(a) ==
  LET at == tmAttempts[a]
      previous == tmStore
  IN
  /\ at.phase = "load"
  /\ IF /\ at.reason \notin ForcedReasons
        /\ previous.token # 0
        /\ tmNow - previous.lastRefreshAt < MinRefreshInterval
       THEN tmAttempts' = [tmAttempts EXCEPT ![a] =
                             Settled(at.reason, [kind |-> "state", state |-> previous])]
       ELSE tmAttempts' = [tmAttempts EXCEPT ![a].phase = "refresher",
                             ![a].previous = previous, ![a].now = tmNow]
  /\ UNCHANGED <<tmStore, tmNow, tmRefreshPromise, tmCallers>>

\* The state a successful refresh stores; the refresher's token is named after
\* the attempt, and it supplies no obtainedAt, softTtlMs or hardTtlMs.
NextState(a) ==
  LET now == tmAttempts[a].now
      softTtlMs == Max(SoftTtl, MIN_SOFT_TTL)
      hardTtlMs == Max(HardTtl, softTtlMs + MIN_HARD_GAP)
  IN [token |-> a, obtainedAt |-> now, softExpireAt |-> now + softTtlMs,
      hardExpireAt |-> now + hardTtlMs, lastRefreshAt |-> now,
      refreshFailures |-> 0]

\* The degraded state stored when the refresh failed and the previous token is
\* still usable.
DegradedState(a) ==
  LET previous == tmAttempts[a].previous
  IN [previous EXCEPT !.lastRefreshAt = tmAttempts[a].now,
                      !.refreshFailures = previous.refreshFailures + 1]

\* this.refresher.refreshToken settles: with a token, with an empty token, or
\* by throwing.
RefresherReturns(a) ==
  LET at == tmAttempts[a] IN
  /\ at.phase = "refresher"
  /\ \E res \in {"token", "empty", "throw"} :
       IF res = "token"
         THEN tmAttempts' = [tmAttempts EXCEPT ![a].phase = "save",
                               ![a].pending = NextState(a)]
         ELSE IF at.previous.token # 0 /\ at.now < at.previous.hardExpireAt
           THEN tmAttempts' = [tmAttempts EXCEPT ![a].phase = "save",
                                 ![a].pending = DegradedState(a)]
           ELSE tmAttempts' = [tmAttempts EXCEPT ![a] =
                                 Settled(at.reason, [kind |-> "error", state |-> NoState])]
  /\ UNCHANGED <<tmStore, tmNow, tmRefreshPromise, tmCallers>>

\* `await this.saveState(...)` completes and performRefresh returns the state.
PerformRefreshSaved(a) ==
  LET at == tmAttempts[a] IN
  /\ at.phase = "save"
  /\ tmStore' = at.pending
  /\ tmAttempts' = [tmAttempts EXCEPT ![a] =
                      Settled(at.reason, [kind |-> "state", state |-> at.pending])]
  /\ UNCHANGED <<tmNow, tmRefreshPromise, tmCallers>>

\* The .finally callback of refreshToken.
RefreshFinally(a) ==
  /\ tmAttempts[a].phase = "settled"
  /\ tmAttempts' = [tmAttempts EXCEPT ![a].phase = "finalised"]
  /\ tmRefreshPromise' = 0
  /\ UNCHANGED <<tmStore, tmNow, tmCallers>>

\* A caller awaiting this.refreshPromise resumes with its result or its error.
CallerResumes(c) ==
  LET me == c IN
  /\ me.pc = "awaitRefresh"
  /\ tmAttempts[me.awaits].phase = "finalised"
  /\ tmCallers' = Moved(c, [me EXCEPT !.pc = "done",
                                      !.result = tmAttempts[me.awaits].outcome])
  /\ UNCHANGED <<tmStore, tmNow, tmRefreshPromise, tmAttempts>>

\* Time passes.
Tick ==
  /\ \E d \in TickSteps :
       /\ (tmNow \div SoftTtl) + (tmNow % SoftTtl) < MaxTicks
       /\ tmNow' = tmNow + d
  /\ UNCHANGED <<tmStore, tmRefreshPromise, tmAttempts, tmCallers>>

\* The token manager shares nothing with the options scan.
TokFrame == Rest("tok")

TokNext ==
  \/ \E c \in CallersIn : CallRefreshToken(c) /\ TokFrame
  \/ \E c \in CallersIn : CallGetValidToken(c) /\ TokFrame
  \/ \E c \in CallersIn : GetValidTokenDecide(c) /\ TokFrame
  \/ \E a \in DOMAIN tmAttempts : PerformRefreshLoaded(a) /\ TokFrame
  \/ \E a \in DOMAIN tmAttempts : RefresherReturns(a) /\ TokFrame
  \/ \E a \in DOMAIN tmAttempts : PerformRefreshSaved(a) /\ TokFrame
  \/ \E a \in DOMAIN tmAttempts : RefreshFinally(a) /\ TokFrame
  \/ \E c \in CallersIn : CallerResumes(c) /\ TokFrame
  \/ Tick /\ TokFrame

SpecToken == TokInit /\ [][TokNext]_vars

\* C1: at most one invocation of the refresher's refreshToken is in progress at
\* any time, and a refreshToken call made while a refresh is in flight awaits
\* that same attempt and receives its result or its error.
C1_SingleInFlightRefresh ==
  /\ RefresherInProgress <= 1
  /\ \A me \in CallersIn :
       /\ (me.viaRefresh /\ me.inFlightAtCall # 0) => me.awaits = me.inFlightAtCall
       /\ (me.viaRefresh /\ me.pc = "done") =>
            /\ tmAttempts[me.awaits].phase = "finalised"
            /\ me.result = tmAttempts[me.awaits].outcome

\* C1 witness: two callers joined on one attempt whose refresher is running.
C1_Witness ==
  /\ RefresherInProgress = 1
  /\ \E c1, c2 \in CallersIn :
       /\ c1.pc = "awaitRefresh" /\ c1.inFlightAtCall = 0
       /\ c2.pc = "awaitRefresh" /\ c2.inFlightAtCall = c1.awaits
       /\ c2.awaits = c1.awaits
       /\ tmAttempts[c1.awaits].phase = "refresher"

\* ---------------------------------------------------------------------------
\* Options scan: combo detection (src/src/worker/options/processing.ts) and the
\* second identifyCombos call of scanSymbolOptions (src/unnamed/part_018).
\*
\* A signal object is a record; the lists the code passes around hold
\* references, which are indices into cbObjs here.  Strings that the code only
\* compares or hashes are sequences of character codes; the empty string is <<>>.
\* Trade times are whole minutes, expiries are ordinals (an ISO date string
\* orders as its date does), money is in dollars.

\* Bounds of the enumerated option chains.
MaxSignals == 3

Strikes == {100, 104}
Expiries == {1, 2}
TradeTimes == {0}
Directions == {"buy", "sell", "neutral"}
Spots == {96, 108}
LegVolume == 100
LegNotional == 50000

\* identifyCombos' defaults (scanCfg leaves them unset).
BASE_TIME_WINDOW_MIN == 10
NOTIONAL_RATIO_TOL_NUM == 3
NOTIONAL_RATIO_TOL_DEN == 2
STRIKE_PCT_TOL_NUM == 5
STRIKE_PCT_TOL_DEN == 100
timeWindowTiers ==
  <<BASE_TIME_WINDOW_MIN, BASE_TIME_WINDOW_MIN * 3, BASE_TIME_WINDOW_MIN * 6>>

\* processExpirations' default OTM bands, in hundredths of the spot price.
CALL_OTM_MIN == 105
CALL_BAND_MAX == 160
PUT_OTM_MAX == 95
PUT_BAND_MIN == 40

\* The finite sequence a function on 1..n is, as an explicit tuple.
AsSeq(f) == SubSeq(f, 1, Len(f))

\* --- simpleHash (util.ts): h = 5381; h = ((h << 5) + h) ^ code; (h >>> 0) in hex.
\* The 32-bit value is kept as two 16-bit halves <<hi, lo>>.
HASH_SEED == 5381
Half == 2^16

\* a ^ b for two 7-bit values (every hashed character is ASCII).
Xor7(a, b) ==
  LET bit(v, i) == (v \div (2 ^ i)) % 2
      x(i)      == ((bit(a, i) + bit(b, i)) % 2) * (2 ^ i)
  IN x(0) + x(1) + x(2) + x(3) + x(4) + x(5) + x(6)

\* One round: ((h << 5) + h) ^ code, on 32 bits.
HashStep(h, code) ==
  LET t  == 33 * h[2]
      lo == t % Half
  IN <<(33 * h[1] + (t \div Half)) % Half, (lo - (lo % 128)) + Xor7(lo % 128, code)>>

\* The rounds over str[i..j], the left half before the right half.
HashFrom(h0, str) ==
  LET run[h \in (0..(Half - 1)) \X (0..(Half - 1)), i \in 1..Len(str), j \in 1..Len(str)] ==
        IF i = j THEN HashStep(h, str[i])
        ELSE run[run[h, i, (i + j) \div 2], ((i + j) \div 2) + 1, j]
  IN IF str = <<>> THEN h0 ELSE run[h0, 1, Len(str)]

HexOf(v) == AsSeq([d \in 1..4 |-> (v \div (16 ^ (4 - d))) % 16])

\* Number.prototype.toString(16) prints no leading zeros.
StripZeros(ds) ==
  LET nz == {d \in 1..Len(ds) : ds[d] # 0}
  IN IF nz = {} THEN <<0>>
     ELSE SubSeq(ds, CHOOSE d \in nz : \A e \in nz : d <= e, Len(ds))

\* The hash as the string of its hexadecimal digits, never empty.
simpleHash(str) ==
  LET h == HashFrom(<<0, HASH_SEED>>, str)
  IN StripZeros(HexOf(h[1]) \o HexOf(h[2]))

Slice4(str) == SubSeq(str, 1, Min(4, Len(str)))

\* --- the strings that are hashed
\* The decimal digits of a number, as character codes.
RECURSIVE NumStr(_)
NumStr(num) ==
  IF num < 10 THEN <<48 + num>> ELSE Append(NumStr(num \div 10), 48 + (num % 10))

Sep == <<95>>
TypeStr(type) == IF type = "call" THEN <<99, 97, 108, 108>> ELSE <<112, 117, 116>>
VerticalStr == <<118, 101, 114, 116, 105, 99, 97, 108>>
CalendarStr == <<99, 97, 108, 101, 110, 100, 97, 114>>

\* --- signal objects
NoType == [name |-> "", suffix |-> <<>>]

\* The signal processExpirations builds for a contract that passed its gates.
NewSignal(type, strike, expiry, time, direction) ==
  [type |-> type, strike |-> strike, expiry |-> expiry, time |-> time,
   direction |-> direction, notional |-> LegNotional, volume |-> LegVolume,
   comboId |-> <<>>, comboType |-> NoType, isComboHedge |-> FALSE,
   comboMatchTier |-> -1, assigned |-> 0]

\* What a list of signal objects can hold.
SignalObjects ==
  [type : {"call", "put"}, strike : Nat, expiry : Nat, time : Nat,
   direction : Directions, notional : Nat, volume : Nat,
   comboId : Seq(0..15), comboType : [name : STRING, suffix : Seq(0..15)],
   isComboHedge : BOOLEAN, comboMatchTier : -1..2, assigned : Nat]

Contracts == {"call", "put"} \X Strikes \X Expiries

\* Chain order: expirations in date order, within one the calls before the puts,
\* each side by strike; a chain lists a contract once.
ChainRank(c) == (c[3] * 2 + (IF c[1] = "call" THEN 0 ELSE 1)) * 1000 + c[2]

ChainOf(S, f) ==
  AsSeq([i \in 1..Cardinality(S) |->
           LET c == CHOOSE x \in S : Cardinality({y \in S : ChainRank(y) < ChainRank(x)}) = i - 1
           IN NewSignal(c[1], c[2], c[3], f[c][1], f[c][2])])

\* The candidate lists of the enumerated chains: every contract passed the gates.
ChainLists ==
  UNION {{ChainOf(S, f) : f \in [S -> TradeTimes \X Directions]} :
           S \in {T \in SUBSET Contracts : Cardinality(T) \in 1..MaxSignals}}

WithinBand(s, rmp) ==
  IF s.type = "call"
    THEN s.strike * 100 >= CALL_OTM_MIN * rmp /\ s.strike * 100 <= CALL_BAND_MAX * rmp
    ELSE s.strike * 100 <= PUT_OTM_MAX * rmp /\ s.strike * 100 >= PUT_BAND_MIN * rmp

\* --- list helpers (lists of object indices)
Range(l) == {l[i] : i \in DOMAIN l}

\* The references to all the objects of a list, in its order.
Indices(l) == AsSeq([i \in 1..Len(l) |-> i])

\* The n-th smallest member of a set of positions.
Nth(S, n) == CHOOSE i \in S : Cardinality({j \in S : j < i}) = n - 1

\* Array.prototype.filter: the elements of l that are in S, in the order of l.
KeepIn(l, S) ==
  LET at == {i \in 1..Len(l) : l[i] \in S}
  IN AsSeq([n \in 1..Cardinality(at) |-> l[Nth(at, n)]])

\* Array.prototype.sort with an ascending comparator on key: stable, an element
\* goes after those with a smaller key and those with its key that came before it.
StableSort(l, key) ==
  LET before(i) == {j \in 1..Len(l) : \/ key[l[j]] < key[l[i]]
                                       \/ (key[l[j]] = key[l[i]] /\ j < i)}
  IN AsSeq([n \in 1..Len(l) |-> l[CHOOSE i \in 1..Len(l) : Cardinality(before(i)) = n - 1]])

\* The distinct values of key along l, in the order of first appearance: the
\* iteration order of `for (k in obj)` over string keys inserted in list order.
KeysInOrder(l, key) ==
  LET firsts == {i \in 1..Len(l) : \A j \in 1..(i - 1) : key[l[j]] # key[l[i]]}
  IN AsSeq([n \in 1..Cardinality(firsts) |-> key[l[Nth(firsts, n)]]])

\* for (a of A) for (b of B): the pairs in visiting order.
CrossPairs(A, B) ==
  AsSeq([n \in 1..(Len(A) * Len(B)) |->
           <<A[((n - 1) \div Len(B)) + 1], B[((n - 1) % Len(B)) + 1]>>])

\* for (i < length - 1) for (j = i + 1 ..): the pairs in visiting order.
UpperPairs(L) ==
  LET all == CrossPairs(L, L)
      at  == {n \in 1..Len(all) : ((n - 1) \div Len(L)) < ((n - 1) % Len(L))}
  IN AsSeq([n \in 1..Cardinality(at) |-> all[Nth(at, n)]])

\* x > y ? x / y : y / x, compared with comboNotionalRatioTol.  A division by
\* zero gives Infinity (above any tolerance) and 0 / 0 gives NaN (not above).
RatioAboveTolNever(x, y) == FALSE

RatioAboveTol(x, y) ==
  LET big   == IF x > y THEN x ELSE y
      small == IF x > y THEN y ELSE x
  IN IF small = 0 THEN big > 0
     ELSE big * NOTIONAL_RATIO_TOL_DEN > small * NOTIONAL_RATIO_TOL_NUM

getTimeDiffMin(a, b) == Abs(a.time - b.time)

\* The assignments every pass makes to a leg of a detected combo.
Tagged(s, id, name, tier) ==
  [s EXCEPT !.comboId = id,
            !.comboType = [name |-> name, suffix |-> Slice4(id)],
            !.isComboHedge = TRUE,
            !.comboMatchTier = tier,
            !.assigned = @ + 1]

TagPairOneLeg(objs, i, j, id, name, tier1, tier2) ==
  [objs EXCEPT ![i] = Tagged(objs[i], id, name, tier1)]

TagPair(objs, i, j, id, name, tier1, tier2) ==
  [objs EXCEPT ![i] = Tagged(objs[i], id, name, tier1),
               ![j] = Tagged(objs[j], id, name, tier2)]

\* --- _identifyStraddlesAndStrangles: one call/put pair
MatchedTierLoosest(timeDiff) ==
  IF timeDiff <= timeWindowTiers[Len(timeWindowTiers)] THEN Len(timeWindowTiers) - 1 ELSE -1

MatchedTier(timeDiff) ==
  LET fits == {t \in 1..Len(timeWindowTiers) : timeDiff <= timeWindowTiers[t]}
  IN IF fits = {} THEN -1 ELSE (CHOOSE t \in fits : \A u \in fits : t <= u) - 1

StraddleName(call, put) ==
  LET strikeDiff   == Abs(call.strike - put.strike)
      isSameStrike == strikeDiff = 0
      isStrangle   == /\ strikeDiff > 0
                      /\ strikeDiff * STRIKE_PCT_TOL_DEN <= call.strike * STRIKE_PCT_TOL_NUM
  IN CASE isSameStrike /\ call.direction = "buy"  /\ put.direction = "sell" -> "synthetic-long"
       [] isSameStrike /\ call.direction = "sell" /\ put.direction = "buy"  -> "synthetic-short"
       [] isSameStrike /\ call.direction = "buy"  /\ put.direction = "buy"  -> "long-straddle"
       [] isSameStrike /\ call.direction = "sell" /\ put.direction = "sell" -> "short-straddle"
       [] isStrangle   /\ call.direction = "buy"  /\ put.direction = "buy"  -> "long-strangle"
       [] isStrangle   /\ call.direction = "sell" /\ put.direction = "sell" -> "short-strangle"
       [] OTHER -> ""

StraddleKey(expISO, call, put) ==
  NumStr(expISO) \o Sep \o NumStr(call.strike) \o Sep \o NumStr(put.strike)
    \o Sep \o NumStr(call.time)

StraddlePairNoGuard(objs, c, p, expISO) ==
  LET call == objs[c]
      put  == objs[p]
      tier == MatchedTier(getTimeDiffMin(call, put))
      name == StraddleName(call, put)
  IN IF tier < 0 THEN objs
     ELSE IF name = "" THEN objs
     ELSE IF RatioAboveTol(call.notional, put.notional) THEN objs
     ELSE TagPair(objs, c, p, simpleHash(StraddleKey(expISO, call, put)), name, tier, tier)

StraddlePair(objs, c, p, expISO) ==
  LET call == objs[c]
      put  == objs[p]
      tier == MatchedTier(getTimeDiffMin(call, put))
      name == StraddleName(call, put)
  IN IF call.comboId # <<>> \/ put.comboId # <<>> THEN objs
     ELSE IF tier < 0 THEN objs
     ELSE IF name = "" THEN objs
     ELSE IF RatioAboveTol(call.notional, put.notional) THEN objs
     ELSE TagPair(objs, c, p, simpleHash(StraddleKey(expISO, call, put)), name, tier, tier)

StraddleLoop(objs, pairs, expISO) ==
  LET step[o \in Seq(SignalObjects), n \in 1..Len(pairs)] ==
        StraddlePair(o, pairs[n][1], pairs[n][2], expISO)
      after[n \in 0..Len(pairs)] == IF n = 0 THEN objs ELSE step[after[n - 1], n]
  IN after[Len(pairs)]

\* sortedCalls ascends by trade time, sortedPuts descends.
identifyStraddlesAndStrangles(objs, calls, puts, expISO) ==
  LET sortedCalls == StableSort(calls, [i \in Range(calls) |-> objs[i].time])
      sortedPuts  == StableSort(puts, [i \in Range(puts) |-> 0 - objs[i].time])
  IN StraddleLoop(objs, CrossPairs(sortedCalls, sortedPuts), expISO)

\* --- _identifyVerticalSpreads: one pair of legs of one type, leg1 the lower strike
VerticalKey(expISO, leg1, leg2) ==
  NumStr(expISO) \o Sep \o VerticalStr \o Sep \o TypeStr(leg1.type) \o Sep
    \o NumStr(leg1.strike) \o Sep \o NumStr(leg2.strike) \o Sep \o NumStr(leg1.time)

VerticalName(leg1, leg2) ==
  LET isBull == leg1.direction = "buy" /\ leg2.direction = "sell"
      isBear == leg1.direction = "sell" /\ leg2.direction = "buy"
  IN IF ~(isBull \/ isBear) THEN ""
     ELSE IF leg1.type = "call"
            THEN (IF isBull THEN "bullCallVertical" ELSE "bearCallVertical")
            ELSE (IF isBull THEN "bullPutVertical" ELSE "bearPutVertical")

VerticalPairNoGuard(objs, i, j, expISO) ==
  LET leg1 == objs[i]
      leg2 == objs[j]
      name == VerticalName(leg1, leg2)
  IN IF getTimeDiffMin(leg1, leg2) > BASE_TIME_WINDOW_MIN THEN objs
     ELSE IF RatioAboveTol(leg1.volume, leg2.volume) THEN objs
     ELSE IF name = "" THEN objs
     ELSE TagPair(objs, i, j, simpleHash(VerticalKey(expISO, leg1, leg2)), name,
                  leg1.comboMatchTier, leg2.comboMatchTier)

VerticalPair(objs, i, j, expISO) ==
  LET leg1 == objs[i]
      leg2 == objs[j]
      name == VerticalName(leg1, leg2)
  IN IF leg1.comboId # <<>> \/ leg2.comboId # <<>> THEN objs
     ELSE IF getTimeDiffMin(leg1, leg2) > BASE_TIME_WINDOW_MIN THEN objs
     ELSE IF RatioAboveTol(leg1.volume, leg2.volume) THEN objs
     ELSE IF name = "" THEN objs
     ELSE TagPair(objs, i, j, simpleHash(VerticalKey(expISO, leg1, leg2)), name,
                  leg1.comboMatchTier, leg2.comboMatchTier)

VerticalLoop(objs, pairs, expISO) ==
  LET step[o \in Seq(SignalObjects), n \in 1..Len(pairs)] ==
        VerticalPair(o, pairs[n][1], pairs[n][2], expISO)
      after[n \in 0..Len(pairs)] == IF n = 0 THEN objs ELSE step[after[n - 1], n]
  IN after[Len(pairs)]

identifyVerticalSpreads(objs, options, expISO) ==
  VerticalLoop(objs, UpperPairs(options), expISO)

\* --- _identifyCalendarSpreads: one pair of legs of one type and strike, near first
CalendarKey(near, far) ==
  CalendarStr \o Sep \o TypeStr(near.type) \o Sep \o NumStr(near.strike) \o Sep
    \o NumStr(near.expiry) \o Sep \o NumStr(far.expiry) \o Sep \o NumStr(near.time)

CalendarName(near, far) ==
  LET isLongCalendar  == near.direction = "sell" /\ far.direction = "buy"
      isShortCalendar == near.direction = "buy" /\ far.direction = "sell"
  IN IF ~(isLongCalendar \/ isShortCalendar) THEN ""
     ELSE IF near.type = "call"
            THEN (IF isLongCalendar THEN "longCalendarCall" ELSE "shortCalendarCall")
            ELSE (IF isLongCalendar THEN "longCalendarPut" ELSE "shortCalendarPut")

CalendarPair(objs, i, j) ==
  LET near == objs[i]
      far  == objs[j]
      name == CalendarName(near, far)
  IN IF near.comboId # <<>> \/ far.comboId # <<>> THEN objs
     ELSE IF getTimeDiffMin(near, far) > BASE_TIME_WINDOW_MIN THEN objs
     ELSE IF RatioAboveTol(near.notional, far.notional) THEN objs
     ELSE IF name = "" THEN objs
     ELSE TagPair(objs, i, j, simpleHash(CalendarKey(near, far)), name,
                  near.comboMatchTier, far.comboMatchTier)

CalendarLoop(objs, pairs) ==
  LET step[o \in Seq(SignalObjects), n \in 1..Len(pairs)] ==
        CalendarPair(o, pairs[n][1], pairs[n][2])
      after[n \in 0..Len(pairs)] == IF n = 0 THEN objs ELSE step[after[n - 1], n]
  IN after[Len(pairs)]

identifyCalendarSpreads(objs, options) == CalendarLoop(objs, UpperPairs(options))

\* --- identifyCombos
\* One expiry bucket: straddles and strangles, then call verticals, then put verticals.
ExpiryBucket(objs, signals, expISO) ==
  LET expirySignals == KeepIn(signals, {i \in Range(signals) : objs[i].expiry = expISO})
      byStrike == [i \in Range(expirySignals) |-> objs[i].strike]
      calls == StableSort(KeepIn(expirySignals, {i \in Range(signals) : objs[i].type = "call"}),
                          byStrike)
      puts  == StableSort(KeepIn(expirySignals, {i \in Range(signals) : objs[i].type = "put"}),
                          byStrike)
      vertical[o \in Seq(SignalObjects), options \in {calls, puts}] ==
        identifyVerticalSpreads(o, options, expISO)
  IN vertical[vertical[identifyStraddlesAndStrangles(objs, calls, puts, expISO), calls], puts]

\* One type|strike bucket, sorted by expiry.
StrikeBucket(objs, signals, key) ==
  LET strikeSignals ==
        KeepIn(signals, {i \in Range(signals) : <<objs[i].type, objs[i].strike>> = key})
  IN identifyCalendarSpreads(objs,
       StableSort(strikeSignals, [i \in Range(strikeSignals) |-> objs[i].expiry]))

\* identifyCombos(signals): the objects after the call, which changes them in place.
identifyCombos(objs, signals) ==
  LET byExpiry == KeysInOrder(signals, [i \in Range(signals) |-> objs[i].expiry])
      byStrikeAndType ==
        KeysInOrder(signals, [i \in Range(signals) |-> <<objs[i].type, objs[i].strike>>])
      expiryStep[o \in Seq(SignalObjects), n \in 1..Len(byExpiry)] ==
        ExpiryBucket(o, signals, byExpiry[n])
      afterExpiry[n \in 0..Len(byExpiry)] ==
        IF n = 0 THEN objs ELSE expiryStep[afterExpiry[n - 1], n]
      strikeStep[o \in Seq(SignalObjects), n \in 1..Len(byStrikeAndType)] ==
        StrikeBucket(o, signals, byStrikeAndType[n])
      afterStrike[n \in 0..Len(byStrikeAndType)] ==
        IF n = 0 THEN afterExpiry[Len(byExpiry)] ELSE strikeStep[afterStrike[n - 1], n]
  IN afterStrike[Len(byStrikeAndType)]

\* --- processExpirations, after the chains are read, and scanSymbolOptions
makeKey(s) == <<s.type, s.strike, s.expiry, s.time>>

MergeComboLegsNoExisting(objs, signals) ==
  signals \o KeepIn(Indices(objs), {i \in 1..Len(objs) : objs[i].isComboHedge})

\* The combo-tagged candidates whose key is not yet in `signals` are pushed.
MergeComboLegs(objs, signals) ==
  LET merged[n \in 0..Len(objs)] ==
        IF n = 0 THEN signals
        ELSE IF /\ objs[n].isComboHedge
                /\ makeKey(objs[n]) \notin {makeKey(objs[i]) : i \in Range(merged[n - 1])}
               THEN Append(merged[n - 1], n)
               ELSE merged[n - 1]
  IN merged[Len(objs)]

\* `signals` after pass 1: the candidates within the OTM band.
BandSignals(objs, rmp) ==
  KeepIn(Indices(objs), {i \in 1..Len(objs) : WithinBand(objs[i], rmp)})

\* The candidates of a chain are collected; `signals` holds those within the band.
ComboInit ==
  /\ cbSpot \in Spots
  /\ cbObjs \in ChainLists
  /\ cbSignals = BandSignals(cbObjs, cbSpot)
  /\ cbPrev = cbObjs
  /\ cbPhase = "collected"
  /\ RestIdle("cb")

\* processExpirations, pass 2: identifyCombos on all candidates, then the
\* combo-tagged legs outside the band join `signals`.
ProcessExpirationsPass2 ==
  /\ cbPhase = "collected"
  /\ cbObjs' = identifyCombos(cbObjs, Indices(cbObjs))
  /\ cbSignals' = MergeComboLegs(cbObjs', cbSignals)
  /\ cbPrev' = cbObjs
  /\ cbPhase' = "returned"
  /\ UNCHANGED cbSpot
  /\ Rest("cb")

\* scanSymbolOptions calls identifyCombos again on the returned list.
ScanIdentifyCombos ==
  /\ cbPhase = "returned"
  /\ cbObjs' = identifyCombos(cbObjs, cbSignals)
  /\ cbPrev' = cbObjs
  /\ cbPhase' = "scanned"
  /\ UNCHANGED <<cbSpot, cbSignals>>
  /\ Rest("cb")

ComboNext ==
  \/ ProcessExpirationsPass2
  \/ ScanIdentifyCombos

SpecCombo == ComboInit /\ [][ComboNext]_vars

\* C11: the list returned by processExpirations holds exactly the gate-passing
\* contracts inside the OTM band and the gate-passing contracts outside it that
\* identifyCombos tagged as a combo leg; an out-of-band contract that is no combo
\* leg is not returned, and no contract, keyed by type, strike, expiry and
\* last-trade time, appears twice.
C11_ReturnedSignals ==
  cbPhase = "returned" =>
    /\ Range(cbSignals) =
         {i \in 1..Len(cbObjs) : \/ WithinBand(cbObjs[i], cbSpot)
                                  \/ cbObjs[i].comboId # <<>>}
    /\ \A a, b \in 1..Len(cbSignals) :
         a # b => makeKey(cbObjs[cbSignals[a]]) # makeKey(cbObjs[cbSignals[b]])

\* processExpirations returned a tagged leg from inside the band, a tagged leg
\* from outside it, and left an untagged out-of-band candidate out.
C11_Witness ==
  /\ cbPhase = "returned"
  /\ \E i \in Range(cbSignals) : WithinBand(cbObjs[i], cbSpot) /\ cbObjs[i].isComboHedge
  /\ \E i \in Range(cbSignals) : ~WithinBand(cbObjs[i], cbSpot) /\ cbObjs[i].isComboHedge
  /\ \E i \in 1..Len(cbObjs) :
       /\ ~WithinBand(cbObjs[i], cbSpot) /\ ~cbObjs[i].isComboHedge
       /\ i \notin Range(cbSignals)

\* C2: during identifyCombos, over the straddle/strangle pass, both vertical
\* passes and the calendar pass, a signal's comboId is assigned at most once and
\* is not overwritten once non-empty; after the call every signal belongs to at
\* most one combo, whose two legs carry its id.
C2_ComboIdAssignedOnce ==
  \A i \in DOMAIN cbObjs :
    /\ cbObjs[i].assigned <= 1
    /\ cbObjs[i].assigned = 1 <=> cbObjs[i].comboId # <<>>
    /\ cbPrev[i].comboId # <<>> =>
         /\ cbObjs[i].comboId = cbPrev[i].comboId
         /\ cbObjs[i].comboType = cbPrev[i].comboType
    /\ cbObjs[i].comboId # <<>> =>
         Cardinality({j \in DOMAIN cbObjs : cbObjs[j].comboId = cbObjs[i].comboId}) = 2

\* A leg that a later pass could also have paired stays with its first combo:
\* a call tagged with a put as a straddle while another call would have formed
\* a vertical spread with it.
C2_Witness ==
  /\ cbPhase = "returned"
  /\ \E i, j, k \in DOMAIN cbObjs :
       /\ cbObjs[i].type = "call" /\ cbObjs[j].type = "put" /\ cbObjs[k].type = "call"
       /\ cbObjs[i].comboId # <<>> /\ cbObjs[i].comboId = cbObjs[j].comboId
       /\ cbObjs[i].comboMatchTier >= 0
       /\ cbObjs[k].comboId = <<>>
       /\ cbObjs[k].expiry = cbObjs[i].expiry /\ cbObjs[k].time = cbObjs[i].time
       /\ cbObjs[i].strike < cbObjs[k].strike
       /\ VerticalName(cbObjs[i], cbObjs[k]) # ""

\* C3: the second identifyCombos call, made by scanSymbolOptions on the list
\* processExpirations returned with its comboId fields as they are, changes
\* nothing: no comboId, comboType or isComboHedge changes, no untagged signal
\* becomes tagged, and no assignment is made at all.
C3_SecondRunIsNoOp ==
  cbPhase = "scanned" => cbObjs = cbPrev

\* The second call had tagged legs to skip and untagged pairs to look at again.
C3_Witness ==
  /\ cbPhase = "scanned"
  /\ \E i, j, k \in Range(cbSignals) :
       /\ i # j /\ cbObjs[i].comboId # <<>> /\ cbObjs[j].comboId = cbObjs[i].comboId
       /\ cbObjs[k].comboId = <<>>
       /\ cbObjs[k].expiry = cbObjs[i].expiry
  /\ \E i \in Range(cbSignals) : ~WithinBand(cbObjs[i], cbSpot)

\* C30: after identifyCombos every signal with a non-empty comboId has
\* isComboHedge set, a non-empty comboType and direction buy or sell, a neutral
\* signal being never a combo leg, and shares its comboId with another signal of
\* the list the call was made on; every signal with an empty comboId has
\* isComboHedge false.
C30_ComboLegsWellFormed ==
  LET list == IF cbPhase = "scanned" THEN Range(cbSignals) ELSE DOMAIN cbObjs
  IN \A i \in list :
       IF cbObjs[i].comboId # <<>>
         THEN /\ cbObjs[i].isComboHedge
              /\ cbObjs[i].comboType.name # ""
              /\ cbObjs[i].comboType.suffix # <<>>
              /\ cbObjs[i].direction \in {"buy", "sell"}
              /\ \E j \in list : j # i /\ cbObjs[j].comboId = cbObjs[i].comboId
         ELSE ~cbObjs[i].isComboHedge

\* identifyCombos tagged two legs of a list and left a neutral signal of the
\* same expiry, traded at the same time, without a combo.
C30_WitnessNeutralLeftOut ==
  /\ cbPhase = "returned"
  /\ \E i, j, k \in DOMAIN cbObjs :
       /\ i # j /\ cbObjs[i].comboId # <<>> /\ cbObjs[j].comboId = cbObjs[i].comboId
       /\ cbObjs[k].direction = "neutral"
       /\ cbObjs[k].expiry = cbObjs[i].expiry
       /\ cbObjs[k].comboId = <<>> /\ ~cbObjs[k].isComboHedge

\* ---------------------------------------------------------------------------
\* Hedge score (src/src/worker/options/hedge.ts).  Weights are in hundredths,
\* moneyFlowStrength is in hundredths, a score is in ten-thousandths.

W_deepOTMPut == 35
W_smallCapRatio == 15
W_longTerm == 25
W_comboHedge == 40
W_shortTermDirectional == 35
W_largeOTMCall == 25
W_moneyFlowConfirm == 20
W_moneyFlowContradict == 25
W_highIVDirectional == 15
W_institutionalTrader == 10

\* 1, as a moneyFlowStrength and as a score.
FlowOne == 100
ScoreOne == 10000

\* iv > 0.5, in hundredths.
HIGH_IV == 50

\* calculateMoneyFlowStrength returns a value in [-1, 1].
MoneyFlows == {0 - FlowOne, -50, -1, 0, 1, 50, FlowOne}

\* The fields of a signal that computeHedgeScoreForSignal reads.  smallCap
\* stands for 0 < notionalToMarketCap <= smallCapRatioCut.
HedgeInputs ==
  [type : {"call", "put"}, direction : Directions, traderType : {"institutional", "retail"},
   iv : {30, 80}, isDeepOTMPut : BOOLEAN, smallCap : BOOLEAN, isLongTermHedge : BOOLEAN,
   isComboHedge : BOOLEAN, isShortTermSpec : BOOLEAN, isLargeOTMCall : BOOLEAN]

Term(fires, weight) == IF fires THEN weight * FlowOne ELSE 0

isBullishSignal(s) ==
  (s.type = "call" /\ s.direction = "buy") \/ (s.type = "put" /\ s.direction = "sell")

isBearishSignal(s) ==
  (s.type = "put" /\ s.direction = "buy") \/ (s.type = "call" /\ s.direction = "sell")

MoneyFlowTermAlwaysConfirm(s, moneyFlowStrength) ==
  IF isBullishSignal(s) \/ isBearishSignal(s)
    THEN 0 - W_moneyFlowConfirm * Abs(moneyFlowStrength)
  ELSE 0

MoneyFlowTerm(s, moneyFlowStrength) ==
  IF isBullishSignal(s) /\ moneyFlowStrength > 0
    THEN 0 - W_moneyFlowConfirm * moneyFlowStrength
  ELSE IF isBearishSignal(s) /\ moneyFlowStrength < 0
    THEN 0 - W_moneyFlowConfirm * Abs(moneyFlowStrength)
  ELSE IF isBullishSignal(s) /\ moneyFlowStrength < 0
    THEN W_moneyFlowContradict * Abs(moneyFlowStrength)
  ELSE IF isBearishSignal(s) /\ moneyFlowStrength > 0
    THEN W_moneyFlowContradict * moneyFlowStrength
  ELSE 0

\* `score` before the clamp.
RawHedgeScore(s, moneyFlowStrength) ==
  Term(s.isDeepOTMPut, W_deepOTMPut) + Term(s.smallCap, W_smallCapRatio)
    + Term(s.isLongTermHedge, W_longTerm) + Term(s.isComboHedge, W_comboHedge)
    - Term(s.isShortTermSpec, W_shortTermDirectional) - Term(s.isLargeOTMCall, W_largeOTMCall)
    - Term(s.iv > HIGH_IV /\ s.direction = "buy", W_highIVDirectional)
    - Term(s.traderType = "institutional", W_institutionalTrader)
    + MoneyFlowTerm(s, moneyFlowStrength)

ClampScoreNoUpper(score) == Max(0, score)

\* Math.max(0, Math.min(1, score))
ClampScore(score) == Max(0, Min(ScoreOne, score))

HedgeScored(s, moneyFlowStrength) ==
  [in |-> s, hedgeScore |-> ClampScore(RawHedgeScore(s, moneyFlowStrength))]

\* A call is given the signals that agree on type, direction, trader and iv and
\* carry every combination of the six feature flags.
HedgeInit ==
  /\ hgFlow \in MoneyFlows
  /\ \E ty \in {"call", "put"}, d \in Directions, tr \in {"institutional", "retail"},
        v \in {30, 80} :
        hgSignals = {[in |-> s, hedgeScore |-> -1] :
                       s \in {x \in HedgeInputs : /\ x.type = ty /\ x.direction = d
                                                   /\ x.traderType = tr /\ x.iv = v}}
  /\ hgPhase = "given"
  /\ RestIdle("hg")

\* computeHedgeScoreForSignal: every signal of the list gets its hedgeScore.
ComputeHedgeScoreForSignal ==
  /\ hgPhase = "given"
  /\ hgSignals' = {HedgeScored(s.in, hgFlow) : s \in hgSignals}
  /\ hgPhase' = "scored"
  /\ UNCHANGED hgFlow
  /\ Rest("hg")

HedgeNext == ComputeHedgeScoreForSignal

SpecHedge == HedgeInit /\ [][HedgeNext]_vars

\* C4: after computeHedgeScoreForSignal every signal's hedgeScore lies in [0, 1],
\* for every combination of the feature flags, all additive and all subtractive
\* weights firing together included, and every moneyFlowStrength in [-1, 1].
C4_HedgeScoreInUnitInterval ==
  hgPhase = "scored" =>
    \A s \in hgSignals : s.hedgeScore >= 0 /\ s.hedgeScore <= ScoreOne

\* One call scored a signal with every weight firing, one whose sum is above 1
\* and one whose sum is below 0.
C4_Witness ==
  /\ hgPhase = "scored"
  /\ \E s \in hgSignals :
       /\ s.in.isDeepOTMPut /\ s.in.smallCap /\ s.in.isLongTermHedge /\ s.in.isComboHedge
       /\ s.in.isShortTermSpec /\ s.in.isLargeOTMCall
       /\ s.in.iv > HIGH_IV /\ s.in.direction = "buy" /\ s.in.traderType = "institutional"
       /\ MoneyFlowTerm(s.in, hgFlow) # 0
  /\ \E s \in hgSignals : RawHedgeScore(s.in, hgFlow) > ScoreOne /\ s.hedgeScore = ScoreOne
  /\ \E s \in hgSignals : RawHedgeScore(s.in, hgFlow) < 0 /\ s.hedgeScore = 0

(***************************************************************************)
(*        aggregateSentiment / computeExtendedSentiment (sentiment.ts)     *)
(***************************************************************************)
\* Numbers are fixed point.  A notional, a threshold: units of 100 000.  pos,
\* moneyness: hundredths.  hedgeScore, alpha: tenths.  auxShortPutWeight:
\* twentieths.  marketCap: units of 1e9.  A ratio: thousandths.  A quotient is
\* truncated toward zero where JavaScript keeps the fraction.

MaxSentSignals == 2    \* signals per list
MaxHalfLives == 2      \* ages are whole half-lives, up to this many

\* NaN, Infinity or undefined where a number is expected.
NonFinite == 0 - 999999
IsFinite(x) == x # NonFinite

TenthOne == 10
AuxOne == 20
RatioOne == 1000
POS_ASK == 66
ALPHA_DEFAULT == 5
AUX_WEIGHT_DEFAULT == 7
AUX_MONEYNESS_MAX == 95
CAP_RATIO_DEFAULT == 2
CAP_MIN_DEFAULT == 2
CAP_MAX_DEFAULT == 50
BETA == 5
SENTIMENT_MAX == 100
ASK_WEIGHT == 20
HalfLifeMins == 30

\* a / b truncated toward zero, b > 0.
SDiv(a, b) == IF a >= 0 THEN a \div b ELSE 0 - ((0 - a) \div b)

\* num / den as a ratio.
Ratio(num, den) == SDiv(num * RatioOne, den)

RECURSIVE SumSeq(_)
SumSeq(l) == IF l = <<>> THEN 0 ELSE Head(l) + SumSeq(Tail(l))

\* The sum of f[s] over the signals of a list, as a `for (const s of signals)`
\* loop accumulates it.
Total(signals, f) == SumSeq(AsSeq([i \in 1..Len(signals) |-> f[signals[i]]]))

Sig(type, direction, notional, pos, ageMin, hedgeScore, moneyness, marketCap) ==
  [type |-> type, direction |-> direction, notional |-> notional, pos |-> pos,
   ageMin |-> ageMin, hedgeScore |-> hedgeScore, moneyness |-> moneyness,
   marketCap |-> marketCap]

\* The signals the lists are made of: calls and puts bought, sold and neutral, at
\* the ask and below it, fresh, aged and of unknown age, hedged and not, a zero
\* notional, short puts deep out of the money and near the money.
SentPalette ==
  << Sig("call", "buy", 20, 70, 0, 0, 110, 500),
     Sig("call", "buy", 0, 70, 0, 0, 110, NonFinite),
     Sig("call", "sell", 10, 50, HalfLifeMins, 5, 110, 500),
     Sig("put", "buy", 30, 70, 0, 10, 90, 5000),
     Sig("put", "sell", 20, 30, 0, 0, 90, 50),
     Sig("put", "sell", 10, 70, HalfLifeMins, 5, 100, 0),
     Sig("put", "sell", 20, 50, NonFinite, 0, NonFinite, 500),
     Sig("call", "buy", 30, 50, NonFinite, 5, 110, 500),
     Sig("call", "neutral", 10, 70, MaxHalfLives * HalfLifeMins, 0, 110, 500),
     Sig("put", "buy", 10, 50, MaxHalfLives * HalfLifeMins, 5, 90, 5000) >>

SentSignals == Range(SentPalette)

\* The lists: up to MaxSentSignals signals of the palette, in its order.
SentLists ==
  {KeepIn(SentPalette, {SentPalette[i] : i \in S}) :
     S \in {T \in SUBSET (1..Len(SentPalette)) : Cardinality(T) <= MaxSentSignals}}

IsBullish(s) ==
  IF s.type = "call" THEN s.direction = "buy" ELSE s.direction = "sell"

IsBearish(s) ==
  IF s.type = "call" THEN s.direction = "sell" ELSE s.direction = "buy"

NotionalIf(signals, P(_)) ==
  Total(signals, [s \in Range(signals) |-> IF P(s) THEN s.notional ELSE 0])

ClampSentimentNone(x, one) == x

\* Math.max(-100, Math.min(100, x)), for x in 1/one of a point.
ClampSentiment(x, one) == Max(0 - SENTIMENT_MAX * one, Min(SENTIMENT_MAX * one, x))

\* putNotional / callNotional, Infinity when only puts traded.
PutCallRatio(putN, callN) ==
  IF callN > 0 THEN Ratio(putN, callN) ELSE IF putN > 0 THEN NonFinite ELSE 0

\* aggregateSentiment; sentiment is in thousandths of a point.
aggregateSentiment(signals) ==
  LET isCall(s) == s.type = "call"
      isPut(s) == s.type # "call"
      atAsk(s) == s.pos >= POS_ASK
      all(s) == TRUE
      bullish == NotionalIf(signals, IsBullish)
      bearish == NotionalIf(signals, IsBearish)
      askNotional == NotionalIf(signals, atAsk)
      totalNotional == NotionalIf(signals, all)
      putNotional == NotionalIf(signals, isPut)
      callNotional == NotionalIf(signals, isCall)
      askBias == IF totalNotional > 0 THEN Ratio(askNotional, totalNotional) ELSE 0
      sentimentScore ==
        IF totalNotional > 0
          THEN SDiv(SENTIMENT_MAX * RatioOne * (bullish - bearish), totalNotional)
                 + ASK_WEIGHT * (askBias - (RatioOne \div 2))
          ELSE 0
  IN [bullishNotional |-> bullish, bearishNotional |-> bearish,
      totalNotional |-> totalNotional, putNotional |-> putNotional,
      callNotional |-> callNotional,
      putCallRatio |-> PutCallRatio(putNotional, callNotional),
      askBias |-> askBias, sentiment |-> ClampSentiment(sentimentScore, RatioOne)]

AggregationPolicies == {"standard", "buyersOnly", "buyersOnlyAuxSP"}

\* A ThresholdPolicy; mode "" stands for no policy given.
Policy(mode, staticMinBullish, capRatio, capMin, capMax) ==
  [mode |-> mode, staticMinBullish |-> staticMinBullish, capRatio |-> capRatio,
   capMin |-> capMin, capMax |-> capMax]

ThresholdPolicies ==
  { Policy("", NonFinite, NonFinite, NonFinite, NonFinite),
    Policy("static", 8, NonFinite, NonFinite, NonFinite),
    Policy("static", NonFinite, NonFinite, NonFinite, NonFinite),
    Policy("static", -3, NonFinite, NonFinite, NonFinite),
    Policy("capratio", NonFinite, NonFinite, NonFinite, NonFinite),
    Policy("capratio", 8, CAP_RATIO_DEFAULT, 0, 0) }

\* The configs: the window is one half-life and a half.
SentConfigs ==
  [windowMins : {HalfLifeMins + (HalfLifeMins \div 2)}, halfLifeMins : {HalfLifeMins},
   minBullishWindowNotional : {5, 0, NonFinite}, alpha : {NonFinite, TenthOne},
   thresholdPolicy : ThresholdPolicies, auxShortPutWeight : {NonFinite}]

processConfiguration(config, aggregationPolicy) ==
  [hl |-> Max(1, config.halfLifeMins),
   alphaVal |-> IF IsFinite(config.alpha) THEN Max(0, Min(TenthOne, config.alpha))
                ELSE ALPHA_DEFAULT,
   policy |-> IF aggregationPolicy = "" THEN "standard" ELSE aggregationPolicy,
   auxWeight |-> IF IsFinite(config.auxShortPutWeight)
                   THEN Max(0, Min(AuxOne, config.auxShortPutWeight))
                   ELSE AUX_WEIGHT_DEFAULT,
   thresholdPolicy |-> config.thresholdPolicy]

\* signals.filter((s) => s.direction === 'buy') under the buyers-only policies.
applyAggregationPolicy(signals, policy) ==
  IF policy \in {"buyersOnly", "buyersOnlyAuxSP"}
    THEN KeepIn(signals, {s \in Range(signals) : s.direction = "buy"})
    ELSE signals

\* The median of the finite positive market caps, 0 when there is none.
MedianMarketCap(signalsEff) ==
  LET at == {i \in 1..Len(signalsEff) :
               IsFinite(signalsEff[i].marketCap) /\ signalsEff[i].marketCap > 0}
      n == Cardinality(at)
      marketCaps == AsSeq([k \in 1..n |-> signalsEff[Nth(at, k)].marketCap])
      sorted == AsSeq([k \in 1..n |->
                  marketCaps[StableSort(Indices(marketCaps), marketCaps)[k]]])
      mid == n \div 2
  IN IF n = 0 THEN 0
     ELSE IF n % 2 = 1 THEN sorted[mid + 1]
     ELSE (sorted[mid] + sorted[mid + 1]) \div 2

\* marketCap * capRatio, in threshold units.
CapThreshold(marketCap, capRatio) == (marketCap * capRatio) \div 100

calculateMarketCapAndThreshold(signalsEff, minBullishWindowNotional, thresholdPolicy) ==
  LET marketCap == MedianMarketCap(signalsEff)
      tp == thresholdPolicy
      staticOrMin == IF IsFinite(tp.staticMinBullish) THEN tp.staticMinBullish
                     ELSE minBullishWindowNotional
      capRatio == IF IsFinite(tp.capRatio) THEN tp.capRatio ELSE CAP_RATIO_DEFAULT
      capMin == IF IsFinite(tp.capMin) THEN tp.capMin ELSE CAP_MIN_DEFAULT
      capMax == IF IsFinite(tp.capMax) THEN tp.capMax ELSE CAP_MAX_DEFAULT
  IN [marketCap |-> marketCap,
      thresholdUsed |->
        IF tp.mode = "capratio"
          THEN IF marketCap > 0
                 THEN Max(capMin, Min(capMax, CapThreshold(marketCap, capRatio)))
                 ELSE staticOrMin
        ELSE IF tp.mode = "static" THEN staticOrMin
        ELSE minBullishWindowNotional]

\* Math.pow(0.5, age / hl) in units of 1 / WeightOne; 0 for a non-finite age.
\* Exact for an age of up to MaxHalfLives whole half-lives.
WeightOne == 2 ^ MaxHalfLives
DecayWeight(age, hl) ==
  IF ~IsFinite(age) \/ age \div hl > MaxHalfLives THEN 0
  ELSE WeightOne \div (2 ^ (age \div hl))

\* A decayed notional is in units of 1 / (WeightOne * AdjOne) of a notional.
AdjOne == TenthOne * TenthOne
NotionalD(s, hl) == s.notional * DecayWeight(s.ageMin, hl) * AdjOne
NotionalDWeighted(s, hl, alphaVal) ==
  s.notional * DecayWeight(s.ageMin, hl) * (AdjOne - alphaVal * s.hedgeScore)

\* isSignalForSentiment
IsSignalForSentiment(s, policy) ==
  \/ policy = "standard"
  \/ (policy = "buyersOnly" /\ s.direction = "buy")
  \/ (policy = "buyersOnlyAuxSP" /\ s.direction = "buy")

\* The signals whose short-put contribution is added: the branch sits under
\* the policy filter, the put branch and `direction === 'sell'`.
IsAuxShortPut(s, policy) ==
  /\ IsSignalForSentiment(s, policy)
  /\ s.type # "call"
  /\ s.direction = "sell"
  /\ policy = "buyersOnlyAuxSP"
  /\ IsFinite(s.moneyness)
  /\ s.moneyness <= AUX_MONEYNESS_MAX

\* calculateDecayedMetrics; auxSPContribution is in 1 / AuxOne of a decayed notional.
calculateDecayedMetrics(signals, hl, alphaVal, policy, auxWeight, windowMins) ==
  LET D(P(_)) == Total(signals, [s \in Range(signals) |->
                                    IF P(s) THEN NotionalD(s, hl) ELSE 0])
      DAdj(P(_)) == Total(signals, [s \in Range(signals) |->
                                       IF P(s) THEN NotionalDWeighted(s, hl, alphaVal) ELSE 0])
      all(s) == TRUE
      atAsk(s) == s.pos >= POS_ASK
      in(s) == IsSignalForSentiment(s, policy)
      call(s) == in(s) /\ s.type = "call"
      put(s) == in(s) /\ s.type # "call"
      bullish(s) == in(s) /\ IsBullish(s)
      bearish(s) == in(s) /\ IsBearish(s)
      aux(s) == IsAuxShortPut(s, policy)
      within(s) == in(s) /\ IsFinite(s.ageMin) /\ s.ageMin <= windowMins
      winBull(s) == within(s) /\ IsBullish(s)
      winBear(s) == within(s) /\ IsBearish(s)
  IN [bullishD |-> D(bullish), bearishD |-> D(bearish), totalD |-> D(all),
      putD |-> D(put), callD |-> D(call), askD |-> D(atAsk),
      bullishDAdj |-> DAdj(bullish), bearishDAdj |-> DAdj(bearish),
      totalDAdj |-> DAdj(all), putDAdj |-> DAdj(put), callDAdj |-> DAdj(call),
      askDAdj |-> DAdj(atAsk),
      auxSPContribution |-> DAdj(aux) * auxWeight,
      winBullish |-> NotionalIf(signals, winBull),
      winBearish |-> NotionalIf(signals, winBear)]

\* Math.tanh(x) for x in hundredths, as a ratio: the continued fraction
\* x (15 + x^2) / (15 + 6 x^2), within 0.001 of tanh on [-1, 1], odd and increasing.
CoreOne == 100
Tanh(x) ==
  SDiv((RatioOne \div CoreOne) * x * (15 * CoreOne * CoreOne + x * x),
       15 * CoreOne * CoreOne + 6 * x * x)

\* Math.exp(-r) for r >= 0 in hundredths, in hundredths: 1 / (1 + r + r^2/2 + r^3/6),
\* which is 1 at 0, decreasing, and 0 from r = 10 on.
ConfOne == 100
ExpNeg(r) ==
  IF r >= 10 * ConfOne THEN 0
  ELSE (6 * ConfOne * ConfOne * ConfOne * ConfOne)
         \div (6 * ConfOne * ConfOne * ConfOne + 6 * ConfOne * ConfOne * r
                 + 3 * ConfOne * r * r + r * r * r)

ConfUngated(totalD, thresholdUsed) == ConfOne

\* conf = totalD > 0 && Number.isFinite(thresholdUsed) && thresholdUsed > 0
\*          ? 1 - Math.exp(-totalD / thresholdUsed) : 0
Conf(totalD, thresholdUsed) ==
  IF totalD > 0 /\ IsFinite(thresholdUsed) /\ thresholdUsed > 0
    THEN ConfOne - ExpNeg((totalD * ConfOne) \div (WeightOne * AdjOne * thresholdUsed))
    ELSE 0

\* clamp((coreScore + askScore) * conf, -100, 100), in 1 / (RatioOne * ConfOne) of
\* a point; core is the core ratio in 1 / CoreOne.
SentimentOf(core, askBias, conf) ==
  ClampSentiment((SENTIMENT_MAX * Tanh(core) + BETA * (askBias - (RatioOne \div 2))) * conf,
                 RatioOne * ConfOne)

\* assembleResult: the fields of the result computed from the metrics.
assembleResult(base, metrics, thresholdUsed, auxSPContribution) ==
  LET askBiasDecayed ==
        IF metrics.totalD > 0 THEN Ratio(metrics.askD, metrics.totalD) ELSE 0
      coreRaw ==
        IF metrics.totalD > 0
          THEN SDiv((metrics.bullishD - metrics.bearishD) * CoreOne, metrics.totalD)
          ELSE 0
      askBiasDecayedAdj ==
        IF metrics.totalDAdj > 0 THEN Ratio(metrics.askDAdj, metrics.totalDAdj) ELSE 0
      coreAdj ==
        IF metrics.totalDAdj > 0
          THEN SDiv((metrics.bullishDAdj * AuxOne + auxSPContribution
                       - metrics.bearishDAdj * AuxOne) * CoreOne,
                    metrics.totalDAdj * AuxOne)
          ELSE 0
  IN [sentiment |-> base.sentiment,
      bullishNotionalDecayed |-> metrics.bullishD,
      bearishNotionalDecayed |-> metrics.bearishD,
      totalNotionalDecayed |-> metrics.totalD,
      putNotionalDecayed |-> metrics.putD,
      callNotionalDecayed |-> metrics.callD,
      putCallRatioDecayed |-> PutCallRatio(metrics.putD, metrics.callD),
      askBiasDecayed |-> askBiasDecayed,
      sentimentDecayed |-> SentimentOf(coreRaw, askBiasDecayed, Conf(metrics.totalD, thresholdUsed)),
      bullishNotionalDecayedAdj |-> metrics.bullishDAdj,
      bearishNotionalDecayedAdj |-> metrics.bearishDAdj,
      totalNotionalDecayedAdj |-> metrics.totalDAdj,
      putNotionalDecayedAdj |-> metrics.putDAdj,
      callNotionalDecayedAdj |-> metrics.callDAdj,
      putCallRatioDecayedAdj |-> PutCallRatio(metrics.putDAdj, metrics.callDAdj),
      askBiasDecayedAdj |-> askBiasDecayedAdj,
      sentimentDecayedAdj |->
        SentimentOf(coreAdj, askBiasDecayedAdj, Conf(metrics.totalDAdj, thresholdUsed)),
      windowBullishNotionalRaw |-> metrics.winBullish,
      windowBearishNotionalRaw |-> metrics.winBearish,
      windowBullishThresholdUsed |-> thresholdUsed,
      auxSPContribution |-> auxSPContribution]

MergeMetricsFiltered(sentimentMetrics, marketMetrics) == sentimentMetrics

\* metrics = { ...sentimentMetrics, askD, totalD, askDAdj, totalDAdj of marketMetrics }
MergeMetrics(sentimentMetrics, marketMetrics) ==
  [sentimentMetrics EXCEPT !.askD = marketMetrics.askD, !.totalD = marketMetrics.totalD,
                           !.askDAdj = marketMetrics.askDAdj,
                           !.totalDAdj = marketMetrics.totalDAdj]

computeExtendedSentiment(signals, base, config, aggregationPolicy) ==
  LET cfg == processConfiguration(config, aggregationPolicy)
      marketMetrics ==
        calculateDecayedMetrics(signals, cfg.hl, cfg.alphaVal, "standard", 0, config.windowMins)
      signalsEff == applyAggregationPolicy(signals, cfg.policy)
      threshold ==
        calculateMarketCapAndThreshold(signalsEff, config.minBullishWindowNotional,
                                       cfg.thresholdPolicy)
      sentimentMetrics ==
        calculateDecayedMetrics(signalsEff, cfg.hl, cfg.alphaVal, cfg.policy, cfg.auxWeight,
                                config.windowMins)
      metrics == MergeMetrics(sentimentMetrics, marketMetrics)
  IN assembleResult(base, metrics, threshold.thresholdUsed, metrics.auxSPContribution)

SentInit ==
  /\ snSignals \in SentLists
  /\ snCfg \in SentConfigs
  /\ snBase = <<>>
  /\ snExt = [p \in AggregationPolicies |-> <<>>]
  /\ RestIdle("sn")

\* const sentiment = aggregateSentiment(signals, symbol, debug)
AggregateSentiment ==
  /\ snBase = <<>>
  /\ snBase' = <<aggregateSentiment(snSignals)>>
  /\ UNCHANGED <<snSignals, snCfg, snExt>>
  /\ Rest("sn")

\* computeExtendedSentiment(signals, base, currentPrice, config, moneyFlowStrength),
\* called with the same list and config under one more aggregation policy.
ComputeExtendedSentiment ==
  /\ snBase # <<>>
  /\ \E p \in AggregationPolicies :
       /\ snExt[p] = <<>>
       /\ snExt' = [snExt EXCEPT ![p] = <<computeExtendedSentiment(snSignals, snBase[1], snCfg, p)>>]
  /\ UNCHANGED <<snSignals, snCfg, snBase>>
  /\ Rest("sn")

SentNext ==
  \/ AggregateSentiment
  \/ ComputeExtendedSentiment

SpecSent == SentInit /\ [][SentNext]_vars

\* C5: aggregateSentiment returns a sentiment in [-100, 100] for every list of
\* signals with non-negative notionals, all-bullish, all-bearish and mixed, and
\* exactly 0 for an empty list and for a list whose total notional is 0.
C5_SentimentInRange ==
  snBase # <<>> =>
    /\ snBase[1].sentiment >= 0 - SENTIMENT_MAX * RatioOne
    /\ snBase[1].sentiment <= SENTIMENT_MAX * RatioOne
    /\ (\A i \in 1..Len(snSignals) : snSignals[i].notional = 0) => snBase[1].sentiment = 0

\* aggregateSentiment has run on a list of bullish signals traded at the ask,
\* whose score of 110 is stored as 100.
C5_Witness ==
  /\ snBase # <<>>
  /\ snSignals # <<>>
  /\ \A i \in 1..Len(snSignals) :
       /\ IsBullish(snSignals[i]) /\ snSignals[i].pos >= POS_ASK
       /\ snSignals[i].notional > 0
  /\ snBase[1].sentiment = SENTIMENT_MAX * RatioOne

PositiveFinite(x) == IsFinite(x) /\ x > 0

\* C6: computeExtendedSentiment returns sentimentDecayed and sentimentDecayedAdj
\* in [-100, 100] under every aggregation policy and threshold policy, and both
\* are exactly 0 when the list is empty, when the total decayed notional is 0
\* (every signal of non-finite age), or when the threshold used is not a
\* positive finite number.
C6_DecayedSentimentInRange ==
  \A p \in DOMAIN snExt :
    snExt[p] # <<>> =>
      LET r == snExt[p][1]
          one == SENTIMENT_MAX * RatioOne * ConfOne
      IN /\ r.sentimentDecayed >= 0 - one /\ r.sentimentDecayed <= one
         /\ r.sentimentDecayedAdj >= 0 - one /\ r.sentimentDecayedAdj <= one
         /\ ( \/ snSignals = <<>>
              \/ r.totalNotionalDecayed = 0
              \/ \A i \in 1..Len(snSignals) : ~IsFinite(snSignals[i].ageMin)
              \/ ~PositiveFinite(r.windowBullishThresholdUsed) )
            => (r.sentimentDecayed = 0 /\ r.sentimentDecayedAdj = 0)

\* Every policy has been computed for a list with decayed notional on one side
\* only, under a threshold that is zero, negative or not a number.
C6_Witness ==
  /\ \A p \in DOMAIN snExt : snExt[p] # <<>>
  /\ \E p \in DOMAIN snExt :
       LET r == snExt[p][1]
       IN /\ ~PositiveFinite(r.windowBullishThresholdUsed)
          /\ r.totalNotionalDecayedAdj > 0
          /\ r.bullishNotionalDecayedAdj > r.bearishNotionalDecayedAdj
          /\ r.sentimentDecayed = 0 /\ r.sentimentDecayedAdj = 0

\* The sell-direction puts with moneyness <= 0.95 of the list.
DeepShortPuts ==
  {i \in 1..Len(snSignals) :
     /\ snSignals[i].type = "put" /\ snSignals[i].direction = "sell"
     /\ IsFinite(snSignals[i].moneyness) /\ snSignals[i].moneyness <= AUX_MONEYNESS_MAX}

\* C8: under buyersOnlyAuxSP the hedge-adjusted bullish core gets auxShortPutWeight
\* times the hedge-adjusted decayed notional of each sell-direction put with
\* moneyness <= 0.95, so that a list with such short puts yields a different
\* adjusted result than under buyersOnly.
C8_AuxShortPutContributes ==
  (/\ DOMAIN snExt = AggregationPolicies
   /\ snExt["buyersOnly"] # <<>> /\ snExt["buyersOnlyAuxSP"] # <<>>)
  => LET cfg == processConfiguration(snCfg, "buyersOnlyAuxSP")
         aux == snExt["buyersOnlyAuxSP"][1]
         only == snExt["buyersOnly"][1]
         due == cfg.auxWeight
                  * SumSeq(AsSeq([n \in 1..Cardinality(DeepShortPuts) |->
                             NotionalDWeighted(snSignals[Nth(DeepShortPuts, n)], cfg.hl,
                                               cfg.alphaVal)]))
     IN /\ aux.auxSPContribution = due
        /\ (due > 0 /\ PositiveFinite(aux.windowBullishThresholdUsed))
             => aux.sentimentDecayedAdj # only.sentimentDecayedAdj

\* C9: for a fixed list and config, askBiasDecayed, totalNotionalDecayed,
\* askBiasDecayedAdj and totalNotionalDecayedAdj are the same under the three
\* aggregation policies: they are computed over the full unfiltered list.
C9_MarketMetricsPolicyIndependent ==
  \A p, q \in DOMAIN snExt :
    (snExt[p] # <<>> /\ snExt[q] # <<>>) =>
      /\ snExt[p][1].askBiasDecayed = snExt[q][1].askBiasDecayed
      /\ snExt[p][1].totalNotionalDecayed = snExt[q][1].totalNotionalDecayed
      /\ snExt[p][1].askBiasDecayedAdj = snExt[q][1].askBiasDecayedAdj
      /\ snExt[p][1].totalNotionalDecayedAdj = snExt[q][1].totalNotionalDecayedAdj

\* The three policies have been computed for a list in which a seller traded at
\* the ask with decayed notional left: the filtered list has less total and less
\* ask notional than the full one, and the bullish aggregate differs by policy.
C9_Witness ==
  /\ \A p \in DOMAIN snExt : snExt[p] # <<>>
  /\ \E i \in 1..Len(snSignals) :
       /\ snSignals[i].direction = "sell" /\ snSignals[i].pos >= POS_ASK
       /\ NotionalD(snSignals[i], Max(1, snCfg.halfLifeMins)) > 0
  /\ \E i \in 1..Len(snSignals) :
       snSignals[i].direction = "buy" /\ NotionalD(snSignals[i], Max(1, snCfg.halfLifeMins)) > 0
  /\ snExt["standard"][1].bullishNotionalDecayed # snExt["buyersOnly"][1].bullishNotionalDecayed
  /\ snExt["standard"][1].totalNotionalDecayed > 0

(***************************************************************************)
(*              analyzeStockValue (scanner/value-analyzer.ts)              *)
(***************************************************************************)
\* The file holds two implementations of analyzeStockValue.  Every number is in
\* hundredths: 3.2 is 320, a score of 0.5 is 50.  A field the provider left out
\* (undefined or null) is Missing.

Missing == 0 - 888888
Present(v) == v # Missing

\* v || d and v ?? d
OrElse(v, d) == IF Present(v) /\ v # 0 THEN v ELSE d
Coalesce(v, d) == IF Present(v) THEN v ELSE d

MAX_SCORE == 600

Config(peMax, peOver, pbMax, roeMin, debtMax, marginHealthy, marginStrong, lowDebtBonus) ==
  [peMax |-> peMax * 100, peOver |-> peOver * 100, pbMax |-> pbMax, roeMin |-> roeMin * 100,
   debtMax |-> debtMax * 100, marginHealthy |-> marginHealthy * 100,
   marginStrong |-> marginStrong * 100, lowDebtBonus |-> lowDebtBonus * 100]

DEFAULT_CONFIG == Config(22, 55, 320, 11, 220, 10, 25, 50)
CHINA_ADJUSTMENT == Config(18, 45, 250, 9, 300, 8, 18, 80)

Sectors == {"Unknown", "Technology", "Financial Services"}

\* SECTOR_CONFIGS[sector] || DEFAULT_CONFIG, for the sectors of the model.
SectorConfig(sector) ==
  IF sector = "Technology" THEN Config(40, 85, 900, 16, 140, 12, 24, 60)
  ELSE IF sector = "Financial Services" THEN Config(16, 30, 180, 9, 600, 15, 25, 150)
  ELSE DEFAULT_CONFIG

\* The second implementation's tables (no margin or low-debt entries).
DEFAULT_CONFIG_2 == Config(20, 50, 300, 12, 200, 0, 0, 0)
SectorConfig2(sector) ==
  IF sector = "Technology" THEN Config(35, 70, 800, 15, 150, 0, 0, 0)
  ELSE IF sector = "Financial Services" THEN Config(14, 25, 150, 8, 500, 0, 0, 0)
  ELSE DEFAULT_CONFIG_2

\* asPercent: null for a missing value, value * 100 otherwise.
asPercent(value) == IF Present(value) THEN value * 100 ELSE Missing

\* clampScore: Math.max(0, Math.min(MAX_SCORE, Number(value.toFixed(2)))); a sum
\* of halves has at most two decimals.
clampScore(value) == Max(0, Min(MAX_SCORE, value))

\* One category of the first implementation: the points added and the reasons
\* pushed; addScore pushes its note only when the points are not 0.
Step(points, note) == [points |-> points, reasons |-> IF points # 0 THEN <<note>> ELSE <<>>]
Unavailable(note) == [points |-> 0, reasons |-> <<note>>]
NoStep == [points |-> 0, reasons |-> <<>>]

PbStep(pb, cfg) ==
  IF Present(pb) /\ pb # 0 /\ pb > 0
    THEN IF 2 * pb <= cfg.pbMax THEN Step(100, "P/B very low")
         ELSE IF pb <= cfg.pbMax THEN Step(50, "P/B attractive")
         ELSE IF 2 * pb >= 3 * cfg.pbMax THEN Step(-50, "P/B rich")
         ELSE NoStep
    ELSE Unavailable("P/B unavailable")

ForwardNote(trailingPE, forwardPE) ==
  IF ~(Present(trailingPE) /\ trailingPE # 0) /\ (Present(forwardPE) /\ forwardPE # 0)
    THEN [points |-> 0, reasons |-> <<"Using forward P/E (no trailing EPS)">>]
    ELSE NoStep

PeStep(pe, cfg) ==
  IF Present(pe) /\ pe # 0 /\ pe > 0
    THEN IF 10 * pe <= 6 * cfg.peMax THEN Step(100, "P/E cheap")
         ELSE IF pe <= cfg.peMax THEN Step(50, "P/E fair")
         ELSE IF pe >= cfg.peOver THEN Step(-50, "P/E stretched")
         ELSE NoStep
    ELSE Unavailable("P/E unavailable")

RoeStep(roe, cfg) ==
  IF Present(roe)
    THEN IF 4 * roe >= 5 * cfg.roeMin THEN Step(100, "ROE excellent")
         ELSE IF roe >= cfg.roeMin THEN Step(50, "ROE solid")
         ELSE IF roe > 0 /\ roe < 200 THEN Step(-50, "ROE very low (<2%)")
         ELSE NoStep
    ELSE Unavailable("ROE unavailable")

MarginStep(profitMargin, cfg) ==
  IF Present(profitMargin)
    THEN IF profitMargin >= cfg.marginStrong THEN Step(100, "High margin")
         ELSE IF profitMargin >= cfg.marginHealthy THEN Step(50, "Healthy margin")
         ELSE IF profitMargin < 0 THEN Step(-50, "Negative margin")
         ELSE NoStep
    ELSE Unavailable("Profit margin unavailable")

DebtStep(debtToEquity, cfg, sector) ==
  IF Present(debtToEquity)
    THEN IF debtToEquity <= cfg.lowDebtBonus /\ sector # "Financial Services"
           THEN Step(100, "Low leverage")
         ELSE IF debtToEquity <= cfg.debtMax THEN Step(50, "Debt within sector norm")
         ELSE Step(-50, "High debt")
    ELSE Unavailable("Debt-to-equity unavailable")

GrowthStep(growthRate) ==
  IF Present(growthRate)
    THEN IF growthRate >= 1500 THEN Step(100, "Growth strong")
         ELSE IF growthRate >= 500 THEN Step(50, "Growth steady")
         ELSE IF growthRate < 0 THEN Step(-50, "Growth contracting")
         ELSE NoStep
    ELSE Unavailable("Growth data unavailable")

\* The first implementation, for a quote that has financialData, keyStats and price.
analyzeStockValue(quote, symbol) ==
  LET cfg == IF symbol.china THEN CHINA_ADJUSTMENT ELSE SectorConfig(symbol.sector)
      pb == quote.priceToBook
      pe == Coalesce(quote.trailingPE, quote.forwardPE)
      roe == asPercent(quote.returnOnEquity)
      profitMargin == asPercent(quote.profitMargins)
      growthRate == Coalesce(asPercent(quote.earningsGrowth), asPercent(quote.revenueGrowth))
      steps == << PbStep(pb, cfg), ForwardNote(quote.trailingPE, quote.forwardPE),
                  PeStep(pe, cfg), RoeStep(roe, cfg), MarginStep(profitMargin, cfg),
                  DebtStep(quote.debtToEquity, cfg, symbol.sector), GrowthStep(growthRate) >>
  IN [score |-> clampScore(SumSeq(AsSeq([i \in 1..Len(steps) |-> steps[i].points]))),
      reasons |-> steps[1].reasons \o steps[2].reasons \o steps[3].reasons
                    \o steps[4].reasons \o steps[5].reasons \o steps[6].reasons
                    \o steps[7].reasons]

\* One category of the second implementation: it adds to the score and pushes a
\* reason independently.
Step2(points, reasons) == [points |-> points, reasons |-> reasons]

\* The second implementation: a missing or zero field takes a default (0 or 999),
\* and the score is returned as summed.
analyzeStockValue2(quote, symbol) ==
  LET cfg == SectorConfig2(symbol.sector)
      pb == OrElse(quote.priceToBook, 0)
      pe == OrElse(quote.trailingPE, OrElse(quote.forwardPE, 99900))
      roe == OrElse(quote.returnOnEquity, 0) * 100
      profitMargin == OrElse(quote.profitMargins, 0) * 100
      debtToEquity == OrElse(quote.debtToEquity, 99900)
      steps ==
        << IF pb > 0 /\ 2 * pb < cfg.pbMax THEN Step2(200, <<"P/B Very Low">>)
           ELSE IF pb > 0 /\ pb < cfg.pbMax THEN Step2(100, <<>>)
           ELSE NoStep,
           IF pe > 0 /\ pe < cfg.peMax THEN Step2(100, <<"P/E Cheap">>)
           ELSE IF pe > cfg.peOver THEN Step2(-100, <<"Overvalued">>)
           ELSE NoStep,
           IF roe > cfg.roeMin THEN Step2(200, <<"High ROE">>)
           ELSE IF roe > 0 /\ roe < 200 THEN Step2(-100, <<"Low ROE (<2%)">>)
           ELSE NoStep,
           IF profitMargin > 2000 THEN Step2(100, <<"High Margin (>20%)">>)
           ELSE IF profitMargin < 0 THEN Step2(-100, <<>>)
           ELSE NoStep,
           IF debtToEquity > cfg.debtMax THEN Step2(-100, <<"High Debt">>)
           ELSE IF debtToEquity < 5000 /\ symbol.sector # "Financial Services"
             THEN Step2(100, <<"Low Debt">>)
           ELSE NoStep >>
  IN [score |-> SumSeq(AsSeq([i \in 1..Len(steps) |-> steps[i].points])),
      reasons |-> steps[1].reasons \o steps[2].reasons \o steps[3].reasons
                    \o steps[4].reasons \o steps[5].reasons]

\* The answers of the provider: every field present or left out, on both sides
\* of the thresholds.
Quotes ==
  [priceToBook : {Missing, 0, 100, 1000}, trailingPE : {Missing, 1000, 9000},
   forwardPE : {Missing, 2000}, returnOnEquity : {Missing, 1, 30},
   profitMargins : {Missing, -5, 30}, debtToEquity : {Missing, 3000, 70000},
   earningsGrowth : {Missing, 20}, revenueGrowth : {Missing, -3}]

Implementations == {"first", "second"}

ValueInit ==
  /\ vaQuote \in Quotes
  /\ vaSymbol \in [china : BOOLEAN, sector : Sectors]
  /\ vaResult = [v \in Implementations |-> <<>>]
  /\ RestIdle("va")

AnalyzeStockValue ==
  /\ vaResult["first"] = <<>>
  /\ vaResult' = [vaResult EXCEPT !["first"] = <<analyzeStockValue(vaQuote, vaSymbol)>>]
  /\ UNCHANGED <<vaQuote, vaSymbol>>
  /\ Rest("va")

AnalyzeStockValueSecond ==
  /\ vaResult["second"] = <<>>
  /\ vaResult' = [vaResult EXCEPT !["second"] = <<analyzeStockValue2(vaQuote, vaSymbol)>>]
  /\ UNCHANGED <<vaQuote, vaSymbol>>
  /\ Rest("va")

ValueNext ==
  \/ AnalyzeStockValue
  \/ AnalyzeStockValueSecond

SpecValue == ValueInit /\ [][ValueNext]_vars

UnavailableReasons ==
  {"P/B unavailable", "P/E unavailable", "ROE unavailable", "Profit margin unavailable",
   "Debt-to-equity unavailable", "Growth data unavailable"}

AllMetricsMissing ==
  \A f \in DOMAIN vaQuote : vaQuote[f] = Missing

\* C7: analyzeStockValue returns a score in [0, 6] for every combination of
\* present and missing metrics and sector configuration; when all six metrics
\* are missing the score is 0 and the reasons hold exactly six 'unavailable'
\* strings, one per category.
C7_ValueScoreInRange ==
  \A v \in DOMAIN vaResult :
    vaResult[v] # <<>> =>
      LET r == vaResult[v][1]
          unavailable == {i \in 1..Len(r.reasons) : r.reasons[i] \in UnavailableReasons}
      IN /\ r.score >= 0 /\ r.score <= MAX_SCORE
         /\ AllMetricsMissing =>
              /\ r.score = 0
              /\ Cardinality(unavailable) = 6
              /\ {r.reasons[i] : i \in unavailable} = UnavailableReasons

(***************************************************************************)
(*     Freshness window (scanSymbolOptions) and the gates of a contract    *)
(***************************************************************************)
\* Times are in minutes, prices in dollars.

MaxContracts == 2     \* contracts per chain
ScNow == 6000         \* Date.now()

REGULAR_FRESH_DEFAULT == 60
NON_REGULAR_FRESH_DEFAULT == 1440     \* 24 * 60
MIN_VOLUME_DEFAULT == 1000
MIN_NOTIONAL_DEFAULT == 200000
MIN_NOTIONAL_NO_RATIO_DEFAULT == 400000
MIN_RATIO_DEFAULT == 1
CONTRACT_SIZE == 100

\* String.prototype.toUpperCase on the market states of the model.
ToUpperCase(str) ==
  IF str = "regular" THEN "REGULAR" ELSE IF str = "Closed" THEN "CLOSED"
  ELSE IF str = "spy" THEN "SPY" ELSE IF str = "aaa" THEN "AAA" ELSE str

MarketStates == {"REGULAR", "regular", "CLOSED", "Closed", "PRE", ""}

\* scanCfg: an override is a number or is not given.
ScanConfigs ==
  [regularFreshWindowMins : {NonFinite, 0, 30}, nonRegularFreshWindowMins : {NonFinite, 0, 4320}]

\* isRegular ? regFresh : nonRegFresh; Math.floor leaves a whole number as it is.
FreshWindow(marketState, scanCfg) ==
  LET isRegular == ToUpperCase(marketState) = "REGULAR"
      regFresh == IF IsFinite(scanCfg.regularFreshWindowMins)
                    THEN Max(1, scanCfg.regularFreshWindowMins)
                    ELSE REGULAR_FRESH_DEFAULT
      nonRegFresh == IF IsFinite(scanCfg.nonRegularFreshWindowMins)
                       THEN Max(1, scanCfg.nonRegularFreshWindowMins)
                       ELSE NON_REGULAR_FRESH_DEFAULT
  IN IF isRegular THEN regFresh ELSE nonRegFresh

\* A last-trade reference: none, a value no Date parses, or an instant.
NoTrade == [kind |-> "missing", at |-> 0]
BadTrade == [kind |-> "invalid", at |-> 0]
TradedAgo(age) == [kind |-> "date", at |-> ScNow - age]

\* minutesSince: Infinity for a missing or unparseable value.
minutesSince(val) == IF val.kind = "date" THEN ScNow - val.at ELSE NonFinite

\* minutesSince(lastTradeRef) <= freshWindowMins; Infinity is above every window.
Fresh(val, freshWindowMins) ==
  IsFinite(minutesSince(val)) /\ minutesSince(val) <= freshWindowMins

Contract(volume, openInterest, bid, ask, last, lastTrade) ==
  [volume |-> volume, openInterest |-> openInterest, bid |-> bid, ask |-> ask,
   last |-> last, lastTrade |-> lastTrade]

\* mid = (bid + ask) / 2, else last, bid or ask; 0 stands for no valid mid.
\* Prices of the model have an even bid + ask.
MidPrice(c) ==
  LET mid == (c.bid + c.ask) \div 2
      alt == IF c.last > 0 THEN c.last ELSE IF c.bid > 0 THEN c.bid ELSE c.ask
  IN IF mid > 0 THEN mid ELSE IF alt > 0 THEN alt ELSE 0

\* valid = volOrNotionalAdj && ratioOk && fresh, under the default thresholds.
ContractValid(c, freshWindowMins) ==
  LET notional == c.volume * MidPrice(c) * CONTRACT_SIZE
      volOrNotional == c.volume >= MIN_VOLUME_DEFAULT \/ notional >= MIN_NOTIONAL_DEFAULT
      volOrNotionalAdj ==
        IF c.openInterest > 0 THEN volOrNotional
        ELSE c.volume >= MIN_VOLUME_DEFAULT \/ notional >= MIN_NOTIONAL_NO_RATIO_DEFAULT
      ratioOk == IF c.openInterest > 0
                   THEN c.volume >= MIN_RATIO_DEFAULT * c.openInterest
                   ELSE TRUE
  IN MidPrice(c) > 0 /\ volOrNotionalAdj /\ ratioOk /\ Fresh(c.lastTrade, freshWindowMins)

\* The contracts of the chains: liquid ones of every age around the windows, of
\* no or unparseable trade time, and illiquid fresh ones.
ChainPalette ==
  << Contract(2000, 1000, 4, 6, 5, TradedAgo(30)),
     Contract(2000, 1000, 4, 6, 5, TradedAgo(REGULAR_FRESH_DEFAULT + 1)),
     Contract(2000, 0, 4, 6, 5, TradedAgo(NON_REGULAR_FRESH_DEFAULT)),
     Contract(2000, 1000, 4, 6, 5, TradedAgo(2000)),
     Contract(2000, 1000, 0, 0, 5, TradedAgo(4320)),
     Contract(2000, 1000, 4, 6, 5, TradedAgo(4321)),
     Contract(2000, 1000, 4, 6, 5, NoTrade),
     Contract(2000, 0, 4, 6, 5, BadTrade),
     Contract(500, 1000, 1, 1, 1, TradedAgo(10)),
     Contract(2000, 4000, 4, 6, 5, TradedAgo(10)),
     Contract(2000, 1000, 0, 0, 0, TradedAgo(10)) >>

Chains ==
  {KeepIn(ChainPalette, {ChainPalette[i] : i \in S}) :
     S \in {T \in SUBSET (1..Len(ChainPalette)) : Cardinality(T) <= MaxContracts}}

ScanInit ==
  /\ scMarketState \in MarketStates
  /\ scCfg \in ScanConfigs
  /\ scChain \in Chains
  /\ scWindow = 0
  /\ scCandidates = <<>>
  /\ scPhase = "start"
  /\ RestIdle("sc")

\* scanSymbolOptions up to the call of processExpirations.
ScanSymbolOptionsWindow ==
  /\ scPhase = "start"
  /\ scWindow' = FreshWindow(scMarketState, scCfg)
  /\ scPhase' = "windowed"
  /\ UNCHANGED <<scMarketState, scCfg, scChain, scCandidates>>
  /\ Rest("sc")

\* processExpirations: the contracts that pass the gates become signal objects.
ProcessExpirationsGates ==
  /\ scPhase = "windowed"
  /\ scCandidates' = KeepIn(scChain, {c \in Range(scChain) : ContractValid(c, scWindow)})
  /\ scPhase' = "processed"
  /\ UNCHANGED <<scMarketState, scCfg, scChain, scWindow>>
  /\ Rest("sc")

ScanNext ==
  \/ ScanSymbolOptionsWindow
  \/ ProcessExpirationsGates

SpecScan == ScanInit /\ [][ScanNext]_vars

\* C10: scanSymbolOptions applies a freshness window of 60 minutes when the
\* market state is REGULAR and, when it is not REGULAR and no override is
\* configured, a default window of 4320 minutes; a contract whose last-trade age
\* exceeds the window in force, or whose last-trade time is missing or
\* unparseable, never yields a signal.
C10_FreshnessWindow ==
  /\ (scPhase \in {"windowed", "processed"}) =>
       /\ (ToUpperCase(scMarketState) = "REGULAR" /\ ~IsFinite(scCfg.regularFreshWindowMins))
            => scWindow = 60
       /\ (ToUpperCase(scMarketState) # "REGULAR" /\ ~IsFinite(scCfg.nonRegularFreshWindowMins))
            => scWindow = 4320
  /\ scPhase = "processed" =>
       \A i \in 1..Len(scCandidates) :
         /\ scCandidates[i].lastTrade.kind = "date"
         /\ ScNow - scCandidates[i].lastTrade.at <= scWindow

(***************************************************************************)
(*          calculateEnhancedDirection (options/processing.ts)             *)
(***************************************************************************)
\* posScore and spreadPenalty are in thousandths, a confidence in ten-thousandths.

PosOne == 1000
ConfidenceOne == 10000
SPREAD_FULL_PENALTY == 15     \* spreadPct / 0.15, in hundredths
POS_CLEAR == 500              \* Math.abs(posScore) > 0.5
POS_THRESHOLD == 300          \* threshold = 0.3
CONFIDENCE_MIN == 2500        \* confidence < 0.25

\* The quotes: bid above, at and below ask, last at, between and outside them,
\* zero quotes, open interest none, below and above the volume.
DirectionQuotes ==
  {Contract(v, oi, bid, ask, last, TradedAgo(10)) :
     v \in {2000, 5000}, oi \in {0, 1000, 4000},
     bid \in {0, 2, 4, 6}, ask \in {0, 2, 4, 6, 10}, last \in {0, 3, 4, 5, 6}}

calculateEnhancedDirection(last, bid, ask, volume, openInterest, spreadNum, spreadDen) ==
  LET \* mid = (bid + ask) / 2 and halfSpread = (ask - bid) / 2 || 0.01, both doubled
      mid2 == bid + ask
      \* (last - mid) / halfSpread, clamped to [-1, 1]
      raw == IF ask # bid
               THEN IF ask > bid THEN SDiv((2 * last - mid2) * PosOne, ask - bid)
                    ELSE 0 - SDiv((2 * last - mid2) * PosOne, bid - ask)
               ELSE (2 * last - mid2) * 50 * PosOne
      posScore == IF mid2 > 0 THEN Max(0 - PosOne, Min(PosOne, raw)) ELSE 0
      isNewPosition == IF openInterest > 0 THEN volume > openInterest ELSE TRUE
      \* Math.min(1, spreadPct / 0.15), spreadPct = spreadNum / spreadDen
      spreadPenalty == Min(PosOne, SDiv(spreadNum * 100 * PosOne, SPREAD_FULL_PENALTY * spreadDen))
      c0 == Max(0, ConfidenceOne - 6 * spreadPenalty)
      c1 == IF last = ask \/ last = bid THEN c0 \div 2 ELSE c0
      c2 == IF isNewPosition /\ Abs(posScore) > POS_CLEAR
              THEN Min(ConfidenceOne, (c1 * 12) \div 10) ELSE c1
  IN IF c2 < CONFIDENCE_MIN \/ Abs(posScore) < POS_THRESHOLD
       THEN [direction |-> "neutral", confidence |-> c2 \div 2]
       ELSE [direction |-> IF posScore > 0 THEN "buy" ELSE "sell",
             confidence |-> (c2 * (PosOne + Abs(posScore))) \div (2 * PosOne)]

\* processExpirations on one contract: spreadPct = mid > 0 ? (ask - bid) / mid : 1
\* with the mid of the gates, then the direction.
DirectionOf(c) ==
  calculateEnhancedDirection(c.last, c.bid, c.ask, c.volume, c.openInterest,
                             c.ask - c.bid, MidPrice(c))

DirectionInit ==
  /\ dcQuote \in DirectionQuotes
  /\ dcResult = <<>>
  /\ dcPhase = "start"
  /\ RestIdle("dc")

\* A contract that fails a gate is skipped (`continue`).
ProcessContractSkipped ==
  /\ dcPhase = "start"
  /\ ~ContractValid(dcQuote, REGULAR_FRESH_DEFAULT)
  /\ dcPhase' = "skipped"
  /\ UNCHANGED <<dcQuote, dcResult>>
  /\ Rest("dc")

\* A contract that passes the gates gets its direction and directionConfidence.
ProcessContractDirection ==
  /\ dcPhase = "start"
  /\ ContractValid(dcQuote, REGULAR_FRESH_DEFAULT)
  /\ dcResult' = <<DirectionOf(dcQuote)>>
  /\ dcPhase' = "done"
  /\ UNCHANGED dcQuote
  /\ Rest("dc")

DirectionNext ==
  \/ ProcessContractSkipped
  \/ ProcessContractDirection

SpecDirection == DirectionInit /\ [][DirectionNext]_vars

\* C12: for every contract that passes the filters, quotes with ask < bid and
\* bid = ask included, the directionConfidence computed by
\* calculateEnhancedDirection lies in [0, 1].
C12_DirectionConfidenceInUnitInterval ==
  dcPhase = "done" =>
    /\ dcResult[1].confidence >= 0
    /\ dcResult[1].confidence <= ConfidenceOne

(***************************************************************************)
(*        retry (worker/util.ts) and withRetry (news logging utils)        *)
(***************************************************************************)

MaxRetries == 4
RetryDelayMs == 1000           \* retry: delayMs = 1000
RetryBackoff == 2              \* retry: backoff = 2
DEFAULT_RETRY_DELAY_MS == 500  \* DEFAULT_RETRY_OPTIONS.delayMs, backoff: true

\* What one invocation of the wrapped operation can do: resolve with a value
\* or reject with an error.
AttemptValues == {1, 2}
AttemptErrors == {1, 2}
Succeeded(v) == [ok |-> TRUE, v |-> v]
Failed(e) == [ok |-> FALSE, v |-> e]
AttemptOutcomes == {Succeeded(v) : v \in AttemptValues} \cup {Failed(e) : e \in AttemptErrors}

Resolved(v) == <<[kind |-> "resolved", v |-> v]>>
Rejected(e) == <<[kind |-> "rejected", v |-> e]>>

RetryInit ==
  /\ rtImpl \in {"retry", "withRetry"}
  /\ rtRetries \in 1..MaxRetries
  /\ rtI = (IF rtImpl = "retry" THEN 0 ELSE 1)
  /\ rtDelayMs = (IF rtImpl = "retry" THEN RetryDelayMs ELSE DEFAULT_RETRY_DELAY_MS)
  /\ rtLastError = <<>>
  /\ rtHistory = <<>>
  /\ rtDelays = <<>>
  /\ rtResult = <<>>
  /\ rtPc = "loop"
  /\ RestIdle("rt")

RetrySleepsAlways(i, retries) == TRUE

\* retry waits only `if (i < retries - 1)`.
RetrySleeps(i, retries) == i < retries - 1

\* withRetry: delay = config.backoff ? config.delayMs * attempt : config.delayMs
WithRetryDelay(delayMs, attempt) == delayMs * attempt

\* retry: `return await fn()` resolves.
RetryAttemptOk ==
  /\ rtImpl = "retry" /\ rtPc = "loop" /\ rtI < rtRetries
  /\ \E v \in AttemptValues :
       /\ rtHistory' = Append(rtHistory, Succeeded(v))
       /\ rtResult' = Resolved(v)
  /\ rtPc' = "done"
  /\ UNCHANGED <<rtImpl, rtRetries, rtI, rtDelayMs, rtLastError, rtDelays>>
  /\ Rest("rt")

\* retry: fn() rejects; the catch block keeps the error and either starts the
\* wait or, on the last pass, leaves the loop and throws lastError.
RetryAttemptFails ==
  /\ rtImpl = "retry" /\ rtPc = "loop" /\ rtI < rtRetries
  /\ \E e \in AttemptErrors :
       /\ rtHistory' = Append(rtHistory, Failed(e))
       /\ rtLastError' = <<e>>
       /\ IF RetrySleeps(rtI, rtRetries)
            THEN /\ rtDelays' = Append(rtDelays, rtDelayMs)
                 /\ rtPc' = "sleep"
                 /\ UNCHANGED <<rtI, rtResult>>
            ELSE /\ rtI' = rtI + 1
                 /\ IF rtI + 1 < rtRetries
                      THEN rtPc' = "loop" /\ UNCHANGED rtResult
                      ELSE rtPc' = "done" /\ rtResult' = Rejected(e)
                 /\ UNCHANGED rtDelays
  /\ UNCHANGED <<rtImpl, rtRetries, rtDelayMs>>
  /\ Rest("rt")

\* retry: the timer of the wait fires; delayMs *= backoff and the next pass.
RetryWake ==
  /\ rtImpl = "retry" /\ rtPc = "sleep"
  /\ rtDelayMs' = rtDelayMs * RetryBackoff
  /\ rtI' = rtI + 1
  /\ IF rtI + 1 < rtRetries
       THEN rtPc' = "loop" /\ UNCHANGED rtResult
       ELSE rtPc' = "done" /\ rtResult' = Rejected(rtLastError[1])
  /\ UNCHANGED <<rtImpl, rtRetries, rtLastError, rtHistory, rtDelays>>
  /\ Rest("rt")

\* withRetry: `return await operation()` resolves.
WithRetryAttemptOk ==
  /\ rtImpl = "withRetry" /\ rtPc = "loop" /\ rtI <= rtRetries
  /\ \E v \in AttemptValues :
       /\ rtHistory' = Append(rtHistory, Succeeded(v))
       /\ rtResult' = Resolved(v)
  /\ rtPc' = "done"
  /\ UNCHANGED <<rtImpl, rtRetries, rtI, rtDelayMs, rtLastError, rtDelays>>
  /\ Rest("rt")

\* withRetry: operation() rejects; on the last attempt the loop breaks and
\* lastError is thrown, otherwise the wait of delayMs * attempt starts.
WithRetryAttemptFails ==
  /\ rtImpl = "withRetry" /\ rtPc = "loop" /\ rtI <= rtRetries
  /\ \E e \in AttemptErrors :
       /\ rtHistory' = Append(rtHistory, Failed(e))
       /\ rtLastError' = <<e>>
       /\ IF rtI = rtRetries
            THEN /\ rtPc' = "done"
                 /\ rtResult' = Rejected(e)
                 /\ UNCHANGED rtDelays
            ELSE /\ rtDelays' = Append(rtDelays, WithRetryDelay(rtDelayMs, rtI))
                 /\ rtPc' = "sleep"
                 /\ UNCHANGED rtResult
  /\ UNCHANGED <<rtImpl, rtRetries, rtI, rtDelayMs>>
  /\ Rest("rt")

\* withRetry: sleep(delay) ends; attempt++ and the next pass.
WithRetryWake ==
  /\ rtImpl = "withRetry" /\ rtPc = "sleep"
  /\ rtI' = rtI + 1
  /\ IF rtI + 1 <= rtRetries
       THEN rtPc' = "loop" /\ UNCHANGED rtResult
       ELSE rtPc' = "done" /\ rtResult' = Rejected(rtLastError[1])
  /\ UNCHANGED <<rtImpl, rtRetries, rtDelayMs, rtLastError, rtHistory, rtDelays>>
  /\ Rest("rt")

RetryNext ==
  \/ RetryAttemptOk
  \/ RetryAttemptFails
  \/ RetryWake
  \/ WithRetryAttemptOk
  \/ WithRetryAttemptFails
  \/ WithRetryWake

SpecRetry == RetryInit /\ [][RetryNext]_vars

\* The delay the k-th wait must have: delayMs * backoff^(k-1) in retry,
\* delayMs * k in withRetry.
ExpectedDelay(impl, k) ==
  IF impl = "retry" THEN RetryDelayMs * RetryBackoff ^ (k - 1)
  ELSE DEFAULT_RETRY_DELAY_MS * k

\* C13: retry(n, fn) and withRetry(op, {maxRetries: n}) with n >= 1 invoke the
\* operation at most n times; they stop at the first success and resolve with its
\* value; after n consecutive failures they reject with the error of the last
\* attempt; one delay is waited after each failed attempt but the final one, and
\* the delays grow (times backoff in retry, delayMs times attempt in withRetry).
C13_RetryContract ==
  /\ Len(rtHistory) <= rtRetries
  /\ \A k \in 1..Len(rtHistory) : rtHistory[k].ok => (k = Len(rtHistory) /\ rtPc = "done")
  /\ \A k \in 1..Len(rtDelays) :
       /\ rtDelays[k] = ExpectedDelay(rtImpl, k)
       /\ k > 1 => rtDelays[k] > rtDelays[k - 1]
  /\ Len(rtDelays) <= Len(rtHistory)
  /\ rtPc = "done" =>
       LET last == rtHistory[Len(rtHistory)]
       IN /\ rtHistory # <<>>
          /\ rtResult = (IF last.ok THEN Resolved(last.v) ELSE Rejected(last.v))
          /\ ~last.ok => /\ Len(rtHistory) = rtRetries
                         /\ Len(rtDelays) = rtRetries - 1
          /\ last.ok => Len(rtDelays) = Len(rtHistory) - 1

\* Three attempts, the last one failing with another error than the one before.
C13_WitnessRejected ==
  /\ rtPc = "done"
  /\ rtRetries = 3
  /\ rtResult = Rejected(2)
  /\ rtHistory[2] = Failed(1)
  /\ Len(rtDelays) = 2

(***************************************************************************)
(*                       timeout (worker/util.ts)                          *)
(***************************************************************************)

MaxMs == 2
MaxNow == 3

\* new Error('Promise timed out'), apart from every reason of p.
TimedOut == 0 - 1

\* What the wrapped promise can settle with.
InnerOutcomes == {Resolved(v) : v \in AttemptValues} \cup {Rejected(e) : e \in AttemptErrors}

\* resolve / reject of the returned promise: only the first call settles it.
SettleOuter(outer, outcome) == IF outer = <<>> THEN outcome ELSE outer

ClearTimeoutNoop(timer) == timer

\* clearTimeout(timer): an armed timer never fires afterwards.
ClearTimeout(timer) == IF timer = "armed" THEN "cleared" ELSE timer

\* timeout(ms, promise) has armed the timer and chained .then().catch() on the
\* promise, which may have settled before the call.
TimeoutInit ==
  /\ toMs \in 0..MaxMs
  /\ toNow = 0
  /\ toInner \in {<<>>} \cup InnerOutcomes
  /\ toTimer = "armed"
  /\ toReaction = (IF toInner = <<>> THEN "none" ELSE "then")
  /\ toOuter = <<>>
  /\ toCalls = <<>>
  /\ toEvents = (IF toInner = <<>> THEN <<>> ELSE <<[src |-> "p", out |-> toInner]>>)
  /\ RestIdle("to")

\* Time passes.
TimeoutTick ==
  /\ toNow < MaxNow
  /\ toNow' = toNow + 1
  /\ UNCHANGED <<toMs, toInner, toTimer, toReaction, toOuter, toCalls, toEvents>>
  /\ Rest("to")

\* The wrapped promise settles; its reaction is queued.
PromiseSettles ==
  /\ toInner = <<>>
  /\ \E o \in InnerOutcomes :
       /\ toInner' = o
       /\ toEvents' = Append(toEvents, [src |-> "p", out |-> o])
  /\ toReaction' = "then"
  /\ UNCHANGED <<toMs, toNow, toTimer, toOuter, toCalls>>
  /\ Rest("to")

\* The reaction of .then(): on a value, clearTimeout and resolve(value); a
\* rejection passes through to .catch().
ThenReaction ==
  /\ toReaction = "then"
  /\ IF toInner[1].kind = "resolved"
       THEN /\ toTimer' = ClearTimeout(toTimer)
            /\ toOuter' = SettleOuter(toOuter, toInner)
            /\ toCalls' = Append(toCalls, toInner[1])
            /\ toReaction' = "none"
       ELSE /\ toReaction' = "catch"
            /\ UNCHANGED <<toTimer, toOuter, toCalls>>
  /\ UNCHANGED <<toMs, toNow, toInner, toEvents>>
  /\ Rest("to")

\* The reaction of .catch(): clearTimeout and reject(reason).
CatchReaction ==
  /\ toReaction = "catch"
  /\ toTimer' = ClearTimeout(toTimer)
  /\ toOuter' = SettleOuter(toOuter, toInner)
  /\ toCalls' = Append(toCalls, toInner[1])
  /\ toReaction' = "none"
  /\ UNCHANGED <<toMs, toNow, toInner, toEvents>>
  /\ Rest("to")

\* The timer callback: reject(new Error('Promise timed out')).  A timer runs as
\* a task of its own, after the queued reactions.
TimerFires ==
  /\ toTimer = "armed"
  /\ toNow >= toMs
  /\ toReaction = "none"
  /\ toTimer' = "fired"
  /\ toOuter' = SettleOuter(toOuter, Rejected(TimedOut))
  /\ toCalls' = Append(toCalls, Rejected(TimedOut)[1])
  /\ toEvents' = Append(toEvents, [src |-> "timer", out |-> Rejected(TimedOut)])
  /\ UNCHANGED <<toMs, toNow, toInner, toReaction>>
  /\ Rest("to")

TimeoutNext ==
  \/ TimeoutTick
  \/ PromiseSettles
  \/ ThenReaction
  \/ CatchReaction
  \/ TimerFires

SpecTimeout == TimeoutInit /\ [][TimeoutNext]_vars

\* C14: timeout(ms, p) settles once, with the first of the two events: the
\* settlement of p (its value or its reason) or the timer ('Promise timed
\* out'); a settlement of p after the timer fired changes nothing, and the timer
\* is cancelled, and so never fires, when p settles first.
C14_TimeoutSettlesWithFirstEvent ==
  /\ toOuter # <<>> => toOuter = toEvents[1].out
  /\ (toEvents # <<>> /\ toReaction = "none") => toOuter # <<>>
  /\ (toEvents # <<>> /\ toEvents[1].src = "p") =>
       /\ toTimer # "fired"
       /\ toReaction = "none" => toTimer = "cleared"
       /\ Len(toEvents) = 1
  /\ Len(toCalls) <= 2
  /\ toOuter = <<>> <=> toCalls = <<>>

\* The timer fired first, and p resolved afterwards with its reaction run.
C14_WitnessLateSettlement ==
  /\ Len(toEvents) = 2
  /\ toEvents[1].src = "timer"
  /\ toInner = Resolved(1)
  /\ toReaction = "none"
  /\ Len(toCalls) = 2
  /\ toOuter = Rejected(TimedOut)

(***************************************************************************)
(*   saveScanResult (db/persistence.ts) under GET /api/options/:symbol     *)
(***************************************************************************)

MaxSavedSignals == 2

\* The signals of a scan result: comboId 0 stands for none; a signal without
\* expiryISO makes the description of its combo throw.
SavedSignal(comboId, hasExpiry) == [comboId |-> comboId, hasExpiry |-> hasExpiry]
SavedSignalKinds ==
  {SavedSignal(0, TRUE), SavedSignal(1, TRUE), SavedSignal(2, TRUE), SavedSignal(1, FALSE)}
ScanResults ==
  UNION {[1..n -> SavedSignalKinds] : n \in 0..MaxSavedSignals}

Rows(snapshots, signals, combos) ==
  [snapshots |-> snapshots, signals |-> signals, combos |-> combos]

\* The rows of earlier scans.
DbBefore == Rows(1, 2, 1)

\* The first loop of saveScanResult: one combo per comboId; it throws on the
\* first signal of a combo that has no expiryISO.
ExtractThrows(signals) ==
  \E i \in 1..Len(signals) :
    /\ signals[i].comboId # 0
    /\ ~signals[i].hasExpiry
    /\ \A j \in 1..(i - 1) : signals[j].comboId # signals[i].comboId
ExtractCombos(signals) ==
  {signals[i].comboId : i \in {j \in 1..Len(signals) : signals[j].comboId # 0}}

SaveSettlesUncaught(threw) == IF threw THEN "rejected" ELSE "resolved"

\* The body of saveScanResult is one try block whose catch only logs.
SaveSettles(threw) == "resolved"

SaveInit ==
  /\ svCache \in {<<>>, << <<SavedSignal(0, TRUE)>> >>}
  /\ svResult = <<>>
  /\ svCombos = {}
  /\ svTx = <<>>
  /\ svDb = DbBefore
  /\ svLogged = 0
  /\ svSave = "none"
  /\ svResponse = <<>>
  /\ svPc = "cache"
  /\ RestIdle("sv")

SvFrame(changed) ==
  /\ (IF "cache" \in changed THEN TRUE ELSE UNCHANGED svCache)
  /\ (IF "result" \in changed THEN TRUE ELSE UNCHANGED svResult)
  /\ (IF "combos" \in changed THEN TRUE ELSE UNCHANGED svCombos)
  /\ (IF "tx" \in changed THEN TRUE ELSE UNCHANGED svTx)
  /\ (IF "db" \in changed THEN TRUE ELSE UNCHANGED svDb)
  /\ (IF "logged" \in changed THEN TRUE ELSE UNCHANGED svLogged)
  /\ (IF "save" \in changed THEN TRUE ELSE UNCHANGED svSave)
  /\ (IF "response" \in changed THEN TRUE ELSE UNCHANGED svResponse)
  /\ Rest("sv")

\* `if (cached) return res.json(cached)`
ApiServeCached ==
  /\ svPc = "cache" /\ svCache # <<>>
  /\ svResponse' = <<[status |-> 200, body |-> svCache[1]]>>
  /\ svPc' = "done"
  /\ SvFrame({"response"})

\* scanSymbolOptions resolves with a result, or rejects and the outer catch
\* answers 500.
ApiScan ==
  /\ svPc = "cache" /\ svCache = <<>>
  /\ \/ /\ \E r \in ScanResults : svResult' = r
        /\ svPc' = "extract"
        /\ svSave' = "pending"
        /\ UNCHANGED svResponse
     \/ /\ svResponse' = <<[status |-> 500, body |-> <<>>]>>
        /\ svPc' = "done"
        /\ UNCHANGED <<svResult, svSave>>
  /\ SvFrame({"result", "save", "response"})

\* saveScanResult up to the transaction: the combos are extracted, or the
\* extraction throws, which the catch logs.
SaveExtractCombos ==
  /\ svPc = "extract"
  /\ IF ExtractThrows(svResult)
       THEN /\ svLogged' = svLogged + 1
            /\ svSave' = SaveSettles(TRUE)
            /\ svPc' = "saved"
            /\ UNCHANGED <<svCombos, svTx>>
       ELSE /\ svCombos' = ExtractCombos(svResult)
            /\ svTx' = <<Rows(0, 0, 0)>>
            /\ svPc' = "snapshot"
            /\ UNCHANGED <<svLogged, svSave>>
  /\ SvFrame({"combos", "tx", "logged", "save"})

\* A statement of the transaction fails: the transaction is rolled back and the
\* catch of saveScanResult logs.
TxFails ==
  /\ svPc \in {"snapshot", "signals", "combos", "commit"}
  /\ svTx' = <<>>
  /\ svLogged' = svLogged + 1
  /\ svSave' = SaveSettles(TRUE)
  /\ svPc' = "saved"
  /\ SvFrame({"tx", "logged", "save"})

\* tx.stockSnapshot.create
TxCreateSnapshot ==
  /\ svPc = "snapshot"
  /\ svTx' = <<[svTx[1] EXCEPT !.snapshots = 1]>>
  /\ svPc' = "signals"
  /\ SvFrame({"tx"})

\* tx.optionSignal.createMany, `if (signals.length > 0)`
TxCreateSignals ==
  /\ svPc = "signals"
  /\ svTx' = <<[svTx[1] EXCEPT !.signals = Len(svResult)]>>
  /\ svPc' = "combos"
  /\ SvFrame({"tx"})

\* tx.optionCombo.createMany, `if (combos.length > 0)`
TxCreateCombos ==
  /\ svPc = "combos"
  /\ svTx' = <<[svTx[1] EXCEPT !.combos = Cardinality(svCombos)]>>
  /\ svPc' = "commit"
  /\ SvFrame({"tx"})

\* The transaction commits and saveScanResult resolves.
TxCommit ==
  /\ svPc = "commit"
  /\ svDb' = Rows(svDb.snapshots + svTx[1].snapshots, svDb.signals + svTx[1].signals,
                  svDb.combos + svTx[1].combos)
  /\ svTx' = <<>>
  /\ svSave' = SaveSettles(FALSE)
  /\ svPc' = "saved"
  /\ SvFrame({"tx", "db", "save"})

\* After `await saveScanResult` (its rejection would be caught and logged by
\* the handler): cache.set and res.json(responseData).
ApiRespond ==
  /\ svPc = "saved"
  /\ svCache' = <<svResult>>
  /\ svResponse' = <<[status |-> 200, body |-> svResult]>>
  /\ svPc' = "done"
  /\ SvFrame({"cache", "response"})

SaveNext ==
  \/ ApiServeCached
  \/ ApiScan
  \/ SaveExtractCombos
  \/ TxFails
  \/ TxCreateSnapshot
  \/ TxCreateSignals
  \/ TxCreateCombos
  \/ TxCommit
  \/ ApiRespond

SpecSave == SaveInit /\ [][SaveNext]_vars

\* C15: saveScanResult never rejects, a failure of the combo extraction or of
\* the transaction being logged; the handler then still answers with the scan
\* result and caches it; the committed rows are those from before, or those plus
\* one snapshot with all its signal and combo rows, and the former whenever the
\* save failed.
C15_SaveNeverRejects ==
  /\ svSave # "rejected"
  /\ svDb \in {DbBefore,
               Rows(DbBefore.snapshots + 1, DbBefore.signals + Len(svResult),
                    DbBefore.combos + Cardinality(ExtractCombos(svResult)))}
  /\ svLogged > 0 => (svDb = DbBefore /\ svSave = "resolved" /\ svTx = <<>>)
  /\ (svPc = "done" /\ svSave # "none") =>
       /\ svResponse = <<[status |-> 200, body |-> svResult]>>
       /\ svCache = <<svResult>>

\* A statement of the transaction failed for a result of two signals with a
\* combo, and the handler has answered.
C15_WitnessRolledBack ==
  /\ svPc = "done"
  /\ svLogged = 1
  /\ Len(svResult) = 2
  /\ ~ExtractThrows(svResult)
  /\ svCombos # {}
  /\ svResponse # <<>>

(***************************************************************************)
(*                     runDailyBatchScan (scheduler)                       *)
(***************************************************************************)

MaxBatch == 3

BatchSymbols == {"AAA", "BBB", "CCC"}

\* The lists the movers can give: the US list comes out of a Set, the China list
\* is the movers' symbols as they come.
MoverLists(market) ==
  LET all == UNION {[1..n -> BatchSymbols] : n \in 0..MaxBatch}
  IN IF market = "CN" THEN all
     ELSE {l \in all : \A a, b \in 1..Len(l) : a # b => l[a] # l[b]}

\* What the body of the loop can do for one symbol: run to its end, skip a China
\* symbol without value result (`continue`), or throw.
SymbolOutcomes(market) ==
  IF market = "CN" THEN {"saved", "skipped", "threw"} ELSE {"saved", "threw"}

SymbolCatchNone(outcome) == IF outcome = "threw" THEN "critical" ELSE "next"

\* The try/catch inside the loop logs the error of a symbol; the loop goes on.
SymbolCatch(outcome) == "next"

BatchInit ==
  /\ bsMarket \in {"US", "CN"}
  /\ bsSymbols = <<>>
  /\ bsAttempts = <<>>
  /\ bsLogged = <<>>
  /\ bsSector = <<>>
  /\ bsOutcome = "pending"
  /\ bsPc = "fetch"
  /\ RestIdle("bs")

\* The outer catch: the critical error is logged and the batch resolves.
BatchCritical ==
  /\ bsLogged' = Append(bsLogged, "critical")
  /\ bsOutcome' = "resolved"
  /\ bsPc' = "done"

\* The movers are fetched, or a fetch throws.
BatchFetchMovers ==
  /\ bsPc = "fetch"
  /\ \/ /\ bsSymbols' \in MoverLists(bsMarket)
        /\ bsPc' = "loop"
        /\ UNCHANGED <<bsLogged, bsOutcome>>
     \/ /\ BatchCritical
        /\ UNCHANGED bsSymbols
  /\ UNCHANGED <<bsMarket, bsAttempts, bsSector>>
  /\ Rest("bs")

\* One pass of `for (const symbol of symbols)`.
BatchScanSymbol ==
  /\ bsPc = "loop"
  /\ Len(bsAttempts) < Len(bsSymbols)
  /\ \E o \in SymbolOutcomes(bsMarket) :
       /\ bsAttempts' = Append(bsAttempts, [symbol |-> bsSymbols[Len(bsAttempts) + 1],
                                           outcome |-> o])
       /\ IF SymbolCatch(o) = "next"
            THEN /\ bsLogged' = (IF o = "threw" THEN Append(bsLogged, "symbol") ELSE bsLogged)
                 /\ UNCHANGED <<bsOutcome, bsPc>>
            ELSE BatchCritical
  /\ UNCHANGED <<bsMarket, bsSymbols, bsSector>>
  /\ Rest("bs")

\* After the loop: `if (market === 'US') await captureDailySectorStats()`, which
\* may throw into the outer catch; then the batch resolves.
BatchAfterLoop ==
  /\ bsPc = "loop"
  /\ Len(bsAttempts) >= Len(bsSymbols)
  /\ IF bsMarket = "US"
       THEN /\ bsSector' = Append(bsSector, Len(bsAttempts))
            /\ \/ /\ bsOutcome' = "resolved"
                  /\ bsPc' = "done"
                  /\ UNCHANGED bsLogged
               \/ BatchCritical
       ELSE /\ bsOutcome' = "resolved"
            /\ bsPc' = "done"
            /\ UNCHANGED <<bsSector, bsLogged>>
  /\ UNCHANGED <<bsMarket, bsSymbols, bsAttempts>>
  /\ Rest("bs")

BatchNext ==
  \/ BatchFetchMovers
  \/ BatchScanSymbol
  \/ BatchAfterLoop

SpecBatch == BatchInit /\ [][BatchNext]_vars

\* C16: runDailyBatchScan attempts every symbol of its list once, in list
\* order; the error of a symbol is logged and the later symbols are still
\* attempted; for the US market captureDailySectorStats is called only after the
\* last symbol; the batch never rejects.
C16_BatchAttemptsEverySymbol ==
  /\ bsOutcome # "rejected"
  /\ Len(bsAttempts) <= Len(bsSymbols)
  /\ \A k \in 1..Len(bsAttempts) : bsAttempts[k].symbol = bsSymbols[k]
  /\ (bsPc = "done" /\ bsSymbols # <<>>) => Len(bsAttempts) = Len(bsSymbols)
  /\ Cardinality({k \in 1..Len(bsLogged) : bsLogged[k] = "symbol"})
       = Cardinality({k \in 1..Len(bsAttempts) : bsAttempts[k].outcome = "threw"})
  /\ Len(bsSector) <= 1
  /\ bsSector # <<>> => (bsMarket = "US" /\ bsSector[1] = Len(bsSymbols))
  /\ (bsPc = "done" /\ bsMarket = "US" /\ bsSymbols # <<>>) => bsSector # <<>>

\* A US batch of three symbols whose first symbol threw and whose last was saved.
C16_WitnessErrorThenRest ==
  /\ bsPc = "done"
  /\ bsMarket = "US"
  /\ Len(bsSymbols) = 3
  /\ bsAttempts[1].outcome = "threw"
  /\ bsAttempts[3].outcome = "saved"
  /\ bsSector = <<3>>

(***************************************************************************)
(*            captureDailySectorStats (analytics/sector-trend)             *)
(***************************************************************************)

MaxMovers == 3
MaxSectorRuns == 2

\* The days the runs fall on.
SectorDays == {1, 2}

\* The sector of each mover as analyzeStockValue gives it, 'Unknown' when it
\* gives none.
MoverSectors == {"Tech", "Energy", "Unknown"}
MoverSectorLists == UNION {[1..n -> MoverSectors] : n \in 0..MaxMovers}

\* Steps 3 and 4: one record per known sector in the order of first appearance,
\* with the number of its movers.
SectorGroups(sectors) ==
  LET known == KeepIn(sectors, MoverSectors \ {"Unknown"})
      names == KeysInOrder(Indices(known), known)
  IN AsSeq([n \in 1..Len(names) |->
              [sector |-> names[n],
               stockCount |-> Cardinality({i \in 1..Len(known) : known[i] = names[n]})]])

SortByCountNone(stats) == stats

\* statsToSave.sort((a, b) => b.stockCount - a.stockCount)
SortByCount(stats) ==
  LET order == StableSort(Indices(stats), [i \in 1..Len(stats) |-> 0 - stats[i].stockCount])
  IN AsSeq([n \in 1..Len(stats) |-> stats[order[n]]])

\* The row created for statsToSave[i]: rank i + 1 at date dayStart.
SectorRow(stat, day, i) ==
  [date |-> day, sector |-> stat.sector, stockCount |-> stat.stockCount, rank |-> i + 1]

\* The rows of a table that deleteMany with date in [dayStart, nextDay) leaves.
DeleteDay(rows, day) ==
  LET keep == {i \in 1..Len(rows) : rows[i].date # day}
  IN AsSeq([n \in 1..Cardinality(keep) |-> rows[Nth(keep, n)]])

SectorInit ==
  /\ ssDay = 1
  /\ ssDb = <<>>
  /\ ssRun = <<>>
  /\ ssStats = <<>>
  /\ ssTx = <<>>
  /\ ssI = 0
  /\ ssRuns = 0
  /\ ssPc = "idle"
  /\ RestIdle("ss")

\* Midnight.
SectorDayPasses ==
  /\ ssPc = "idle"
  /\ ssDay + 1 \in SectorDays
  /\ ssDay' = ssDay + 1
  /\ UNCHANGED <<ssDb, ssRun, ssStats, ssTx, ssI, ssRuns, ssPc>>
  /\ Rest("ss")

\* A run up to the transaction: the movers are fetched, enriched, grouped and
\* sorted; or fetching or enriching throws, and the run rethrows.
CaptureCompute ==
  /\ ssPc = "idle"
  /\ ssRuns < MaxSectorRuns
  /\ ssRuns' = ssRuns + 1
  /\ \/ /\ \E sectors \in MoverSectorLists : ssStats' = SortByCount(SectorGroups(sectors))
        /\ ssRun' = <<[day |-> ssDay, before |-> ssDb, outcome |-> "pending"]>>
        /\ ssPc' = "delete"
     \/ /\ ssRun' = <<[day |-> ssDay, before |-> ssDb, outcome |-> "rejected"]>>
        /\ UNCHANGED <<ssStats, ssPc>>
  /\ UNCHANGED <<ssDay, ssDb, ssTx, ssI>>
  /\ Rest("ss")

\* tx.sectorStat.deleteMany for the day
SectorTxDelete ==
  /\ ssPc = "delete"
  /\ ssTx' = <<DeleteDay(ssDb, ssRun[1].day)>>
  /\ ssI' = 0
  /\ ssPc' = "create"
  /\ UNCHANGED <<ssDay, ssDb, ssRun, ssStats, ssRuns>>
  /\ Rest("ss")

\* tx.sectorStat.create for statsToSave[i]
SectorTxCreate ==
  /\ ssPc = "create"
  /\ ssI < Len(ssStats)
  /\ ssTx' = <<Append(ssTx[1], SectorRow(ssStats[ssI + 1], ssRun[1].day, ssI))>>
  /\ ssI' = ssI + 1
  /\ UNCHANGED <<ssDay, ssDb, ssRun, ssStats, ssRuns, ssPc>>
  /\ Rest("ss")

\* The callback has returned: the transaction commits and the run resolves.
SectorTxCommit ==
  /\ ssPc = "create"
  /\ ssI >= Len(ssStats)
  /\ ssDb' = ssTx[1]
  /\ ssTx' = <<>>
  /\ ssRun' = <<[ssRun[1] EXCEPT !.outcome = "resolved"]>>
  /\ ssPc' = "idle"
  /\ UNCHANGED <<ssDay, ssStats, ssI, ssRuns>>
  /\ Rest("ss")

\* A statement of the transaction or its commit fails: it is rolled back, and
\* the catch logs and rethrows.
SectorTxFails ==
  /\ ssPc \in {"delete", "create"}
  /\ ssTx' = <<>>
  /\ ssRun' = <<[ssRun[1] EXCEPT !.outcome = "rejected"]>>
  /\ ssPc' = "idle"
  /\ UNCHANGED <<ssDay, ssDb, ssStats, ssI, ssRuns>>
  /\ Rest("ss")

SectorNext ==
  \/ SectorDayPasses
  \/ CaptureCompute
  \/ SectorTxDelete
  \/ SectorTxCreate
  \/ SectorTxCommit
  \/ SectorTxFails

SpecSector == SectorInit /\ [][SectorNext]_vars

RowsOfDay(day) == {i \in 1..Len(ssDb) : ssDb[i].date = day}

\* C17: after any sequence of runs the SectorStat rows of each day carry the
\* ranks 1..N, each once, in the order of non-increasing stockCount; a run
\* replaces the rows of its day in one transaction, so the committed rows are
\* those from before the run until it commits, and for good when it fails.
C17_SectorRanksDense ==
  /\ \A day \in SectorDays :
       /\ \A n \in 1..Cardinality(RowsOfDay(day)) :
            Cardinality({i \in RowsOfDay(day) : ssDb[i].rank = n}) = 1
       /\ \A i, j \in RowsOfDay(day) :
            ssDb[i].rank < ssDb[j].rank => ssDb[i].stockCount >= ssDb[j].stockCount
  /\ (ssRun # <<>> /\ ssRun[1].outcome # "resolved") => ssDb = ssRun[1].before
  /\ (ssRun # <<>> /\ ssRun[1].outcome = "resolved") =>
       /\ Cardinality(RowsOfDay(ssRun[1].day)) = Len(ssStats)
       /\ DeleteDay(ssDb, ssRun[1].day) = DeleteDay(ssRun[1].before, ssRun[1].day)

\* A second run of a day replaced two ranked rows of different counts.
C17_WitnessReplaced ==
  /\ ssRun # <<>>
  /\ ssRun[1].outcome = "resolved"
  /\ \E i \in 1..Len(ssRun[1].before) : ssRun[1].before[i].date = ssRun[1].day
  /\ Len(ssStats) = 2
  /\ ssStats[1].stockCount > ssStats[2].stockCount
  /\ ssStats[1].sector = "Energy"

(***************************************************************************)
(*          The long-dated deep-OTM short put under the hedge score        *)
(***************************************************************************)

\* A sold put with isDeepOTMPut and isLongTermHedge; a put is no large OTM call,
\* and an expiry past longTermDays is not within shortTermDays.
LongDatedDeepPutSold(s) ==
  /\ s.type = "put" /\ s.direction = "sell"
  /\ s.isDeepOTMPut /\ s.isLongTermHedge
  /\ ~s.isShortTermSpec /\ ~s.isLargeOTMCall

\* C18: a put with isDeepOTMPut, direction sell and isLongTermHedge gets a
\* hedgeScore above 0.5 from computeHedgeScoreForSignal, for every
\* moneyFlowStrength in [-1, 1] and every trader type.
C18_DeepPutHedgeScoreAboveHalf ==
  hgPhase = "scored" =>
    \A s \in hgSignals : LongDatedDeepPutSold(s.in) => 2 * s.hedgeScore > ScoreOne

\* C18, amended: the hedgeScore of such a put is above 0.5 for every
\* moneyFlowStrength in [-1, 0] and every trader type but institutional, and at
\* least 0.3 for every moneyFlowStrength in [-1, 1] and every trader type.
C18_DeepPutHedgeScoreNoInflow ==
  hgPhase = "scored" =>
    \A s \in hgSignals :
      LongDatedDeepPutSold(s.in) =>
        /\ (hgFlow <= 0 /\ s.in.traderType # "institutional") => 2 * s.hedgeScore > ScoreOne
        /\ 10 * s.hedgeScore >= 3 * ScoreOne

\* Such a put of a retail trader under full outflow scored 0.35 + 0.25 + 0.25,
\* and one of an institutional trader under full inflow 0.3.
C18_WitnessDeepPut ==
  /\ hgPhase = "scored"
  /\ \E s \in hgSignals :
       /\ LongDatedDeepPutSold(s.in)
       /\ ~s.in.smallCap /\ ~s.in.isComboHedge
       /\ \/ hgFlow = 0 - FlowOne /\ s.in.traderType = "retail" /\ s.hedgeScore = 8500
          \/ hgFlow = FlowOne /\ s.in.traderType = "institutional" /\ s.hedgeScore = 3000

(***************************************************************************)
(*                calculateMoneyFlowStrength (worker/util.ts)              *)
(***************************************************************************)

MaxPeriodDays == 2

\* toNum(x): a missing or non-finite field counts 0.
toNum(x) == IF x = Missing \/ x = NonFinite THEN 0 ELSE x

\* The daily records of a chart: rising, falling and flat days, a day of null
\* fields, and a null entry, whose fields cannot be read.
Day(high, low, close, volume) ==
  [null |-> FALSE, high |-> high, low |-> low, close |-> close, volume |-> volume]
NullDay == [null |-> TRUE, high |-> Missing, low |-> Missing, close |-> Missing,
            volume |-> Missing]
DayPalette ==
  {Day(10, 8, 9, 100), Day(12, 10, 11, 200), Day(9, 9, 9, 50),
   Day(Missing, Missing, Missing, Missing), NullDay}

\* What fetchDirectChart can give: it rejects, it resolves without quotes, or
\* with a list of daily records.
Charts ==
  {[kind |-> "rejects", quotes |-> <<>>], [kind |-> "noQuotes", quotes |-> <<>>]}
    \cup {[kind |-> "quotes", quotes |-> q] :
            q \in UNION {[1..n -> DayPalette] : n \in 0..(MaxPeriodDays + 2)}}

\* (high + low + close) / 3, kept times 3.
TypicalPrice3(day) == toNum(day.high) + toNum(day.low) + toNum(day.close)

TooFewRecordsOffByOne(history, periodDays) == Len(history) < periodDays

\* `history.length < periodDays + 1`
TooFewRecords(history, periodDays) == Len(history) < periodDays + 1

\* history.slice(-1 * (periodDays + 1))
RecentHistory(history, periodDays) ==
  SubSeq(history, Max(1, Len(history) - periodDays), Len(history))

\* The money flow of the days of `recent` whose typical price rose (up) or
\* fell, kept times 3.
FlowOfDays(recent, up) ==
  SumSeq(AsSeq([k \in 1..(Len(recent) - 1) |->
    LET today == TypicalPrice3(recent[k + 1])
        yesterday == TypicalPrice3(recent[k])
    IN IF (up /\ today > yesterday) \/ (~up /\ today < yesterday)
         THEN today * toNum(recent[k + 1].volume) ELSE 0]))

\* The value or the failure of the body of the try block.
MoneyFlowBody(chart, periodDays) ==
  IF chart.kind = "rejects" THEN [kind |-> "threw", v |-> 0]
  ELSE IF chart.kind = "noQuotes" THEN [kind |-> "threw", v |-> 0]   \* history.length of undefined
  ELSE IF TooFewRecords(chart.quotes, periodDays) THEN [kind |-> "returned", v |-> 0]
  ELSE LET recent == RecentHistory(chart.quotes, periodDays)
           positiveFlow == FlowOfDays(recent, TRUE)
           negativeFlow == FlowOfDays(recent, FALSE)
           totalFlow == positiveFlow + negativeFlow
       IN IF \E k \in 1..Len(recent) : recent[k].null THEN [kind |-> "threw", v |-> 0]
          ELSE IF totalFlow = 0 THEN [kind |-> "returned", v |-> 0]
          ELSE [kind |-> "returned",
                v |-> Max(0 - FlowOne,
                          Min(FlowOne, SDiv((positiveFlow - negativeFlow) * FlowOne, totalFlow)))]

\* The catch block returns 0 on any error.
calculateMoneyFlowStrength(chart, periodDays) ==
  LET body == MoneyFlowBody(chart, periodDays)
  IN IF body.kind = "threw" THEN Resolved(0) ELSE Resolved(body.v)

MoneyFlowInit ==
  /\ mfPeriod \in 1..MaxPeriodDays
  /\ mfChart \in Charts
  /\ mfResult = <<>>
  /\ RestIdle("mf")

CalculateMoneyFlowStrength ==
  /\ mfResult = <<>>
  /\ mfResult' = calculateMoneyFlowStrength(mfChart, mfPeriod)
  /\ UNCHANGED <<mfPeriod, mfChart>>
  /\ Rest("mf")

MoneyFlowNext == CalculateMoneyFlowStrength

SpecMoneyFlow == MoneyFlowInit /\ [][MoneyFlowNext]_vars

\* C19: calculateMoneyFlowStrength never rejects and returns a number in
\* [-1, 1]; it returns 0 when the chart has fewer than periodDays + 1 daily
\* records, when the total flow is 0, and when the chart fetch fails.
C19_MoneyFlowStrengthBounded ==
  mfResult # <<>> =>
    /\ mfResult[1].kind = "resolved"
    /\ mfResult[1].v >= 0 - FlowOne /\ mfResult[1].v <= FlowOne
    /\ mfChart.kind = "rejects" => mfResult[1].v = 0
    /\ Len(mfChart.quotes) < mfPeriod + 1 => mfResult[1].v = 0
    /\ (/\ mfChart.kind = "quotes"
        /\ \A k \in 1..Len(mfChart.quotes) : ~mfChart.quotes[k].null
        /\ \A k \in 2..Len(mfChart.quotes) :
             (k > Len(mfChart.quotes) - mfPeriod /\
              TypicalPrice3(mfChart.quotes[k]) # TypicalPrice3(mfChart.quotes[k - 1]))
               => TypicalPrice3(mfChart.quotes[k]) * toNum(mfChart.quotes[k].volume) = 0)
         => mfResult[1].v = 0

\* A chart of periodDays + 1 records with a rising and a falling day gave a
\* strength strictly between 0 and 1.
C19_Witness ==
  /\ mfResult # <<>>
  /\ mfChart.kind = "quotes"
  /\ mfPeriod = 2
  /\ Len(mfChart.quotes) = mfPeriod + 1
  /\ \A k \in 1..Len(mfChart.quotes) : ~mfChart.quotes[k].null
  /\ mfResult[1].v > 0 /\ mfResult[1].v < FlowOne

(***************************************************************************)
(*                    prefilterSymbols (options prefilter)                 *)
(***************************************************************************)

\* The universe and the sizes are scaled down from the source's 20 symbols per
\* quote batch and 20 earnings lookups, so that a few symbols span several
\* batches.
MaxUniverse == 3
QUOTE_BATCH_SIZE == 2
EARNINGS_CHECK_MAX == 2

UniverseSymbols == {"SPY", "AAA", "aaa", "BBB"}
Universes == UNION {[1..n -> UniverseSymbols] : n \in 0..MaxUniverse}
AlwaysIncludeLists == {<<>>, <<"SPY">>, <<"spy", "SPY">>, <<"SPY", "QQQ">>}
MaxSymbolsChoices == {1, 2, 3}

\* l.map(s => s.toUpperCase())
UpperAll(l) == AsSeq([i \in 1..Len(l) |-> ToUpperCase(l[i])])

\* slice(0, n)
Take(l, n) == SubSeq(l, 1, Min(Len(l), Max(0, n)))

\* symbols.filter(s => !alwaysSet.has(s.toUpperCase()))
RemainingSymbols(symbols, alwaysInclude) ==
  KeepIn(symbols, {x \in Range(symbols) : ToUpperCase(x) \notin Range(UpperAll(alwaysInclude))})

\* The filter through the `seen` set: the first occurrence of each string.
Deduped(results) ==
  LET firsts == {i \in 1..Len(results) : \A j \in 1..(i - 1) : results[j] # results[i]}
  IN AsSeq([n \in 1..Cardinality(firsts) |-> results[Nth(firsts, n)]])

\* remainingSymbols.filter(s => !candidates.includes(s)).slice(0, maxSymbols -
\* results.length), of which the first 20 are looked up.
SymbolsToCheck(remaining, results, maxSymbols) ==
  Take(Take(KeepIn(remaining, Range(remaining) \ Range(results)), maxSymbols - Len(results)),
       EARNINGS_CHECK_MAX)

PrefilterInit ==
  /\ pfAlways \in AlwaysIncludeLists
  /\ pfSymbols \in Universes
  /\ pfMax \in MaxSymbolsChoices
  /\ pfResults = UpperAll(pfAlways)
  /\ pfI = 0
  /\ pfBatches = <<>>
  /\ pfEarly = FALSE
  /\ pfFiltered = <<>>
  /\ pfPc = "batches"
  /\ RestIdle("pf")

\* One pass of the batch loop: the quote call fails and the catch counts it, or
\* it gives one quote per symbol, of which the hot ones (volume or change) are
\* pushed under their uppercased symbol; then the early exit is tested.
PrefilterBatch ==
  /\ pfPc = "batches"
  /\ pfI < Len(RemainingSymbols(pfSymbols, pfAlways))
  /\ LET remaining == RemainingSymbols(pfSymbols, pfAlways)
         batch == SubSeq(remaining, pfI + 1, Min(Len(remaining), pfI + QUOTE_BATCH_SIZE))
     IN \E ok \in BOOLEAN, hot \in SUBSET Range(UpperAll(batch)) :
          /\ (~ok => hot = {})
          /\ pfResults' = pfResults \o KeepIn(UpperAll(batch), hot)
          /\ pfBatches' = Append(pfBatches, IF ok THEN "ok" ELSE "failed")
          /\ IF Len(pfResults') >= pfMax
               THEN /\ pfEarly' = TRUE
                    /\ pfPc' = "earnings"
                    /\ UNCHANGED pfI
               ELSE /\ pfI' = pfI + QUOTE_BATCH_SIZE
                    /\ UNCHANGED <<pfEarly, pfPc>>
  /\ UNCHANGED <<pfAlways, pfSymbols, pfMax, pfFiltered>>
  /\ Rest("pf")

\* The loop condition fails.
PrefilterBatchesDone ==
  /\ pfPc = "batches"
  /\ pfI >= Len(RemainingSymbols(pfSymbols, pfAlways))
  /\ pfPc' = "earnings"
  /\ UNCHANGED <<pfAlways, pfSymbols, pfMax, pfResults, pfI, pfBatches, pfEarly, pfFiltered>>
  /\ Rest("pf")

\* The earnings lookups (earningsWithinDays = 7), of which those that answer
\* 'near' push the symbol as it was given, then the dedupe and the limit.
PrefilterEarningsAndReturn ==
  /\ pfPc = "earnings"
  /\ LET remaining == RemainingSymbols(pfSymbols, pfAlways)
         toCheck == IF Len(pfResults) < pfMax
                      THEN SymbolsToCheck(remaining, pfResults, pfMax) ELSE <<>>
     IN \E near \in SUBSET Range(toCheck) :
          /\ pfResults' = pfResults \o KeepIn(toCheck, near)
          /\ pfFiltered' = Take(Deduped(pfResults'), pfMax)
  /\ pfPc' = "done"
  /\ UNCHANGED <<pfAlways, pfSymbols, pfMax, pfI, pfBatches, pfEarly>>
  /\ Rest("pf")

PrefilterNext ==
  \/ PrefilterBatch
  \/ PrefilterBatchesDone
  \/ PrefilterEarningsAndReturn

SpecPrefilter == PrefilterInit /\ [][PrefilterNext]_vars

\* The parts of the statement that do not depend on what counts as the same
\* symbol: the limit, the alwaysInclude symbols, and the batches going on after
\* a failed one up to the early exit.
PrefilterLimitAndAlways ==
  pfPc = "done" =>
    /\ Len(pfFiltered) <= pfMax
    /\ Cardinality(Range(pfAlways)) <= pfMax =>
         \A k \in 1..Len(pfAlways) : ToUpperCase(pfAlways[k]) \in Range(pfFiltered)
    /\ ~pfEarly => Len(pfBatches) * QUOTE_BATCH_SIZE >= Len(RemainingSymbols(pfSymbols, pfAlways))
    /\ \A a, b \in 1..Len(pfFiltered) : a # b => pfFiltered[a] # pfFiltered[b]

\* C20: prefilterSymbols returns a list without duplicate symbols and of at most
\* maxSymbols entries, which holds every alwaysInclude symbol (uppercased) when
\* alwaysInclude has at most maxSymbols distinct entries, whichever quote batches
\* and earnings lookups fail; a failed batch does not abort the batches after it.
C20_PrefilterNoDuplicates ==
  pfPc = "done" =>
    /\ PrefilterLimitAndAlways
    /\ \A a, b \in 1..Len(pfFiltered) :
         a # b => ToUpperCase(pfFiltered[a]) # ToUpperCase(pfFiltered[b])

(***************************************************************************)
(*   identifyCombos pass by pass, on legs of several trade times and       *)
(*   notionals (options/processing.ts)                                     *)
(***************************************************************************)

\* Trade times whose differences fall in each tier (10, 30, 60) and beyond.
PassTimes == {0, 10, 30, 90}
PassDirections == {"buy", "sell"}

\* A put notional of 80000 against 50000 is a ratio of 1.6, above the tolerance.
PassNotionals(type) == IF type = "call" THEN {50000} ELSE {50000, 80000}

PassContracts ==
  {<<"call", 100, 1>>, <<"call", 104, 1>>, <<"put", 100, 1>>, <<"put", 104, 1>>,
   <<"call", 100, 2>>}
PassSizes == {2, 3}

\* The lists: two or three contracts in chain order, every one with a trade
\* time, a direction and a notional.
PassChain(S, f) ==
  AsSeq([i \in 1..Cardinality(S) |->
           LET c == CHOOSE x \in S : Cardinality({y \in S : ChainRank(y) < ChainRank(x)}) = i - 1
           IN [NewSignal(c[1], c[2], c[3], f[c][1], f[c][2]) EXCEPT !.notional = f[c][3]]])

PassLists(sizes) ==
  UNION {{PassChain(S, f) :
            f \in {g \in [S -> PassTimes \X PassDirections \X {50000, 80000}] :
                     \A c \in S : g[c][3] \in PassNotionals(c[1])}} :
           S \in {T \in SUBSET PassContracts : Cardinality(T) \in sizes}}

\* byExpiry, and the calls and the puts of one expiry, sorted by strike.
PassExpiries(objs) == KeysInOrder(Indices(objs), [i \in 1..Len(objs) |-> objs[i].expiry])

BucketOf(objs, expISO, type) ==
  StableSort(KeepIn(Indices(objs),
                    {i \in 1..Len(objs) : objs[i].expiry = expISO /\ objs[i].type = type}),
             [i \in 1..Len(objs) |-> objs[i].strike])

PassInit ==
  /\ psObjs \in PassLists(PassSizes)
  /\ psBucket = 1
  /\ psPhase = "straddles"
  /\ RestIdle("ps")

\* _identifyStraddlesAndStrangles(calls, puts, expISO, config) of one expiry
PassStraddles ==
  /\ psPhase = "straddles"
  /\ LET expISO == PassExpiries(psObjs)[psBucket]
     IN psObjs' = identifyStraddlesAndStrangles(psObjs, BucketOf(psObjs, expISO, "call"),
                                                BucketOf(psObjs, expISO, "put"), expISO)
  /\ psPhase' = "verticals"
  /\ UNCHANGED psBucket
  /\ Rest("ps")

\* _identifyVerticalSpreads on the calls, then on the puts, of that expiry; then
\* the next expiry, or the calendar spreads after the last.
PassVerticals ==
  /\ psPhase = "verticals"
  /\ LET expISO == PassExpiries(psObjs)[psBucket]
         afterCalls == identifyVerticalSpreads(psObjs, BucketOf(psObjs, expISO, "call"), expISO)
     IN psObjs' = identifyVerticalSpreads(afterCalls, BucketOf(psObjs, expISO, "put"), expISO)
  /\ IF psBucket < Len(PassExpiries(psObjs))
       THEN psBucket' = psBucket + 1 /\ psPhase' = "straddles"
       ELSE psPhase' = "calendars" /\ UNCHANGED psBucket
  /\ Rest("ps")

\* _identifyCalendarSpreads on every type|strike group
PassCalendars ==
  /\ psPhase = "calendars"
  /\ LET signals == Indices(psObjs)
         byStrikeAndType ==
           KeysInOrder(signals, [i \in Range(signals) |-> <<psObjs[i].type, psObjs[i].strike>>])
         strikeStep[o \in Seq(SignalObjects), n \in 1..Len(byStrikeAndType)] ==
           StrikeBucket(o, signals, byStrikeAndType[n])
         after[n \in 0..Len(byStrikeAndType)] ==
           IF n = 0 THEN psObjs ELSE strikeStep[after[n - 1], n]
     IN psObjs' = after[Len(byStrikeAndType)]
  /\ psPhase' = "done"
  /\ UNCHANGED psBucket
  /\ Rest("ps")

PassNext ==
  \/ PassStraddles
  \/ PassVerticals
  \/ PassCalendars

SpecPasses == PassInit /\ [][PassNext]_vars

\* The pairs _identifyStraddlesAndStrangles has just gone through: a call and a
\* put of the expiry whose straddle pass has run and whose vertical pass has not.
JustPaired(c, p) ==
  /\ psPhase = "verticals"
  /\ psObjs[c].type = "call" /\ psObjs[p].type = "put"
  /\ psObjs[c].expiry = PassExpiries(psObjs)[psBucket]
  /\ psObjs[p].expiry = psObjs[c].expiry

TimeDiffOf(i, j) == Abs(psObjs[i].time - psObjs[j].time)
WithinTiers(i, j) == TimeDiffOf(i, j) <= 6 * BASE_TIME_WINDOW_MIN
NotionalRatioOk(i, j) ==
  LET big == Max(psObjs[i].notional, psObjs[j].notional)
      small == Min(psObjs[i].notional, psObjs[j].notional)
  IN 2 * big <= 3 * small
StrikesClose(c, p) == 100 * Abs(psObjs[c].strike - psObjs[p].strike) <= 5 * psObjs[c].strike
PairedTogether(i, j) == psObjs[i].comboId # <<>> /\ psObjs[i].comboId = psObjs[j].comboId
BothUnassigned(i, j) == psObjs[i].comboId = <<>> /\ psObjs[j].comboId = <<>>

\* The sub-type by direction combination, the synthetics at any strikes within
\* the tolerance.
SubTypeAnyStrikes(c, p) ==
  LET same == psObjs[c].strike = psObjs[p].strike
      dirs == <<psObjs[c].direction, psObjs[p].direction>>
  IN IF ~StrikesClose(c, p) THEN ""
     ELSE IF dirs = <<"buy", "sell">> THEN "synthetic-long"
     ELSE IF dirs = <<"sell", "buy">> THEN "synthetic-short"
     ELSE IF dirs = <<"buy", "buy">> THEN (IF same THEN "long-straddle" ELSE "long-strangle")
     ELSE IF dirs = <<"sell", "sell">> THEN (IF same THEN "short-straddle" ELSE "short-strangle")
     ELSE ""

\* The same, the synthetics at equal strikes only.
SubTypeSyntheticSameStrike(c, p) ==
  IF psObjs[c].strike # psObjs[p].strike /\ psObjs[c].direction # psObjs[p].direction
    THEN "" ELSE SubTypeAnyStrikes(c, p)

\* C21: in _identifyStraddlesAndStrangles every unassigned call/put pair of an
\* expiry within the time window and the notional-ratio tolerance, with strikes
\* equal or at most 5% of the call strike apart, is tagged by its direction
\* combination (buy, sell: synthetic-long; sell, buy: synthetic-short; buy, buy:
\* long-straddle or long-strangle; sell, sell: short-straddle or
\* short-strangle); a pair whose notional ratio is above the tolerance is never
\* tagged.
C21_StraddlePairsTagged ==
  \A c, p \in 1..Len(psObjs) :
    JustPaired(c, p) =>
      /\ BothUnassigned(c, p) =>
           ~(WithinTiers(c, p) /\ NotionalRatioOk(c, p) /\ SubTypeAnyStrikes(c, p) # "")
      /\ PairedTogether(c, p) =>
           (NotionalRatioOk(c, p) /\ psObjs[c].comboType.name = SubTypeAnyStrikes(c, p))

\* C21, amended: the same with the synthetics at equal strikes only; a pair of
\* opposite directions at different strikes is left untagged.
C21_StraddlePairsTaggedSameStrikeSynthetics ==
  \A c, p \in 1..Len(psObjs) :
    JustPaired(c, p) =>
      /\ BothUnassigned(c, p) =>
           ~(WithinTiers(c, p) /\ NotionalRatioOk(c, p) /\ SubTypeSyntheticSameStrike(c, p) # "")
      /\ PairedTogether(c, p) =>
           /\ NotionalRatioOk(c, p)
           /\ psObjs[c].comboType.name = SubTypeSyntheticSameStrike(c, p)
           /\ psObjs[p].comboType.name = SubTypeSyntheticSameStrike(c, p)

\* The pass went first through a bought call and a sold put 4% above it, within
\* window and tolerance, and left the call untagged; it then tagged the put
\* with the later call of its strike as a synthetic long.
C21_WitnessSyntheticSameStrikeOnly ==
  \E c, d, p \in 1..Len(psObjs) :
    /\ JustPaired(c, p) /\ JustPaired(d, p)
    /\ psObjs[c].time < psObjs[d].time
    /\ psObjs[c].direction = "buy" /\ psObjs[p].direction = "sell"
    /\ psObjs[c].strike # psObjs[p].strike /\ StrikesClose(c, p)
    /\ WithinTiers(c, p) /\ NotionalRatioOk(c, p)
    /\ psObjs[c].comboId = <<>>
    /\ PairedTogether(d, p) /\ psObjs[d].comboType.name = "synthetic-long"

\* The tier windows of the claim: the base window times 1, 3 and 6.
TierWindow(i) == BASE_TIME_WINDOW_MIN * <<1, 3, 6>>[i + 1]

\* C22: every tagged straddle or strangle pair carries as comboMatchTier the
\* smallest i of 0, 1, 2 whose window, base x 1, 3, 6, holds the pair's
\* trade-time difference, so no pair more than 6 x base apart is tagged; a
\* vertical or calendar pair is tagged only at most the base window apart.
C22_TierIsSmallestFittingWindow ==
  \A i, j \in 1..Len(psObjs) :
    (i # j /\ PairedTogether(i, j)) =>
      IF psObjs[i].type # psObjs[j].type
        THEN LET t == psObjs[i].comboMatchTier
             IN /\ t \in {0, 1, 2}
                /\ psObjs[j].comboMatchTier = t
                /\ TimeDiffOf(i, j) <= TierWindow(t)
                /\ \A u \in 0..(t - 1) : TimeDiffOf(i, j) > TierWindow(u)
        ELSE TimeDiffOf(i, j) <= BASE_TIME_WINDOW_MIN

\* All passes done: a call and a put traded 60 minutes apart are a pair of tier
\* 2, and a third leg of the list is a call traded 20 minutes from the paired
\* call, left without a combo.
C22_WitnessWidestTier ==
  \E i, j, k \in 1..Len(psObjs) :
    /\ psPhase = "done"
    /\ psObjs[i].type = "call" /\ psObjs[j].type = "put"
    /\ PairedTogether(i, j)
    /\ TimeDiffOf(i, j) = 60
    /\ psObjs[i].comboMatchTier = 2
    /\ psObjs[k].type = "call" /\ k # i
    /\ TimeDiffOf(i, k) = 20
    /\ psObjs[k].comboId = <<>>

\* A put the pass could have given the call: of the call's expiry, within the
\* widest window and the ratio tolerance, of a direction combination that
\* makes a combo, and either the call's partner or left without a combo.
EligiblePartner(c, q) ==
  /\ JustPaired(c, q)
  /\ WithinTiers(c, q)
  /\ NotionalRatioOk(c, q)
  /\ SubTypeSyntheticSameStrike(c, q) # ""
  /\ (PairedTogether(c, q) \/ psObjs[q].comboId = <<>>)

\* C23: when several unassigned puts are eligible partners of the same call,
\* the call is paired with the eligible put of the lowest trade-time
\* difference.
C23_PairedWithClosestInTime ==
  \A c, p, q \in 1..Len(psObjs) :
    (PairedTogether(c, p) /\ EligiblePartner(c, p) /\ EligiblePartner(c, q)) =>
      TimeDiffOf(c, p) <= TimeDiffOf(c, q)

\* What the pass does: the call is paired with the eligible put that comes first
\* in sortedPuts, the one traded latest, and of two puts traded at the same time
\* the one of the lower strike.
C23_PairedWithLatestTraded ==
  \A c, p, q \in 1..Len(psObjs) :
    (PairedTogether(c, p) /\ EligiblePartner(c, p) /\ EligiblePartner(c, q) /\ q # p) =>
      \/ psObjs[p].time > psObjs[q].time
      \/ (psObjs[p].time = psObjs[q].time /\ psObjs[p].strike < psObjs[q].strike)


(***************************************************************************)
(*   Token manager with tokens of every age (part_014)                     *)
(***************************************************************************)

\* The clock at the start: the stored token fresh, soft-expired, hard-expired.
AgedNows == {0, SoftTtl, HardTtl}
AgedCallers == {1, 2}

TokAgedInit ==
  /\ tmStore \in {NoState, StoredToken}
  /\ tmNow \in AgedNows
  /\ tmRefreshPromise = 0
  /\ tmAttempts = <<>>
  /\ tmCallers = [x \in {IdleCaller} |-> Cardinality(AgedCallers)]
  /\ RestIdle("tok")

SpecTokenAged == TokAgedInit /\ [][TokNext]_vars

SoftExpired(state) ==
  state.token # 0 /\ tmNow >= state.softExpireAt /\ tmNow < state.hardExpireAt
MissingOrHardExpired(state) ==
  state.token = 0 \/ tmNow >= state.hardExpireAt

\* A finished call: one that went through refreshToken returned after its
\* attempt had settled; one that did not returned a token, no error.
FinishedCalls ==
  \A me \in CallersIn :
    me.pc = "done" =>
      IF me.viaRefresh
        THEN /\ tmAttempts[me.awaits].phase = "finalised"
             /\ me.result = tmAttempts[me.awaits].outcome
        ELSE me.result.kind = "token"

\* getValidToken without forceRefresh on a soft-expired token: the call is
\* over in this step with the token it loaded, and an attempt is started only
\* with no refresh in flight and the interval elapsed.  On a missing or
\* hard-expired token: the call awaits an attempt.
DecideStep ==
  \A c \in CallersIn :
    (GetValidTokenDecide(c) /\ ~c.force) =>
      /\ SoftExpired(c.snap) =>
           /\ tmCallers' = Moved(c, [IdleCaller EXCEPT !.pc = "done",
                                       !.result = [kind |-> "token", state |-> c.snap]])
           /\ Len(tmAttempts') > Len(tmAttempts) =>
                /\ tmRefreshPromise = 0
                /\ tmNow - c.snap.lastRefreshAt >= MinRefreshInterval
                /\ tmAttempts'[Len(tmAttempts')].reason = "soft-expired"
      /\ MissingOrHardExpired(c.snap) =>
           \E a \in 1..Len(tmAttempts') : tmCallers' = Awaiting(c, a, tmRefreshPromise)

\* C26: with the stored token past softExpireAt and before hardExpireAt,
\* getValidToken without forceRefresh returns the stored token without awaiting
\* a refresh, starts a background refresh only if none is in flight and
\* minRefreshIntervalMs has passed since lastRefreshAt, and a failure of that
\* refresh never rejects the call; with the token missing or past hardExpireAt
\* it returns only after a refresh attempt has completed.
C26_SoftExpiredServedHardExpiredAwaits ==
  /\ []FinishedCalls
  /\ [][DecideStep]_vars

\* A call returned the soft-expired token it found, and the background refresh
\* it started has ended with the refresher's failure.
C26_WitnessBackgroundFailed ==
  \E me \in CallersIn :
    /\ me.pc = "done" /\ ~me.viaRefresh
    /\ me.result.kind = "token" /\ me.result.state.softExpireAt <= tmNow
    /\ Len(tmAttempts) >= 1
    /\ tmAttempts[1].reason = "soft-expired"
    /\ tmAttempts[1].phase = "finalised"
    /\ tmAttempts[1].outcome.kind = "state"
    /\ tmAttempts[1].outcome.state.refreshFailures = 1

(***************************************************************************)
(*   Token manager with setToken and clearToken (part_014)                 *)
(***************************************************************************)

\* The tokens setToken is called with, apart from those of the refresher.
ManualTokens == {101, 102}

\* The state setToken stores, called without options.
SetTokenState(token, now) ==
  LET softTtlMs == Max(SoftTtl, MIN_SOFT_TTL)
      hardTtlMs == Max(HardTtl, softTtlMs + MIN_HARD_GAP)
  IN [token |-> token, obtainedAt |-> now, softExpireAt |-> now + softTtlMs,
      hardExpireAt |-> now + hardTtlMs, lastRefreshAt |-> now,
      refreshFailures |-> 0]

\* A write of performRefresh that the store has not applied yet; the store
\* applies writes in the order of the calls, so a later write waits for it.
WriteQueued == \E a \in DOMAIN tmAttempts : tmAttempts[a].phase = "save"

\* setToken(token), up to the completion of its saveState.
SetToken ==
  /\ ~WriteQueued
  /\ \E token \in ManualTokens : tmStore' = SetTokenState(token, tmNow)
  /\ UNCHANGED <<tmNow, tmRefreshPromise, tmAttempts, tmCallers>>

\* clearToken(), up to the completion of kv.delete.
ClearToken ==
  /\ ~WriteQueued
  /\ tmStore' = NoState
  /\ UNCHANGED <<tmNow, tmRefreshPromise, tmAttempts, tmCallers>>

TokOpsNext ==
  \/ TokNext
  \/ SetToken /\ TokFrame
  \/ ClearToken /\ TokFrame

SpecTokenOps == TokAgedInit /\ [][TokOpsNext]_vars

\* The save of a successful refresh, and of a degraded state.
SuccessfulSave(a) == PerformRefreshSaved(a) /\ tmAttempts[a].pending.refreshFailures = 0
DegradedSave(a) == PerformRefreshSaved(a) /\ tmAttempts[a].pending.refreshFailures > 0

\* C24: once setToken(t) has completed the stored token is t until the next
\* setToken, clearToken or successful refresh completes; a refresh in flight at
\* the setToken call that then fails does not put the older token back.
C24_SetTokenHoldsUntilNextWrite ==
  [][(tmStore.token \in ManualTokens /\ tmStore'.token # tmStore.token) =>
       \/ SetToken
       \/ ClearToken
       \/ \E a \in DOMAIN tmAttempts : SuccessfulSave(a)]_vars

\* C25: when the refresher fails or returns an empty token, with a previous
\* token and now before its hardExpireAt, the stored token, obtainedAt,
\* softExpireAt and hardExpireAt stay as they are, refreshFailures grows by one,
\* lastRefreshAt becomes now and the call resolves with that state; with no
\* previous token or a hard-expired one, the error goes to every awaiting caller
\* and the stored state stays as it is.  A successful refresh sets
\* refreshFailures to 0.
C25_FailedRefreshKeepsStoredToken ==
  /\ []FinishedCalls
  /\ [][\A a \in DOMAIN tmAttempts :
          /\ DegradedSave(a) =>
               /\ tmStore' = [tmStore EXCEPT !.lastRefreshAt = tmAttempts[a].now,
                                             !.refreshFailures = tmStore.refreshFailures + 1]
               /\ tmAttempts'[a].outcome = [kind |-> "state", state |-> tmStore']
          /\ (RefresherReturns(a) /\ tmAttempts'[a].phase = "save"
                /\ tmAttempts'[a].pending.refreshFailures > 0) =>
               (tmAttempts[a].previous.token # 0
                  /\ tmAttempts[a].now < tmAttempts[a].previous.hardExpireAt)
          /\ (RefresherReturns(a) /\ tmAttempts'[a].phase = "settled") =>
               /\ tmAttempts'[a].outcome.kind = "error"
               /\ tmStore' = tmStore
               /\ (tmAttempts[a].previous.token = 0
                     \/ tmAttempts[a].now >= tmAttempts[a].previous.hardExpireAt)
          /\ SuccessfulSave(a) => tmStore'.refreshFailures = 0]_vars

(***************************************************************************)
(*   The TTLs of the token states (part_014), in units of 1000 ms          *)
(***************************************************************************)

DEFAULT_SOFT_TTL_MS == 518400
DEFAULT_HARD_TTL_MS == 604800

\* The TTLs a configuration, a setToken call or a refresher gives: none,
\* negative, zero, below the floor, the floor, above it.
TtlValues == {Missing, 0 - 60, 0, 30, 60, 200}
ObtainedValues == {Missing, 0, 40}
TtlNows == {0, 100, 300}
MaxFailures == 2     \* failed refreshes in a row per run

\* Math.max(v ?? d, 60_000)
ClampSoftTtl(v, d) == Max(Coalesce(v, d), MIN_SOFT_TTL)

ClampHardTtlNoGap(v, d, softTtlMs) == Max(Coalesce(v, d), softTtlMs)

\* Math.max(v ?? d, softTtlMs + 60_000)
ClampHardTtl(v, d, softTtlMs) == Max(Coalesce(v, d), softTtlMs + MIN_HARD_GAP)

TokenState(obtainedAt, softTtlMs, hardTtlMs, now) ==
  [obtainedAt |-> obtainedAt, softExpireAt |-> obtainedAt + softTtlMs,
   hardExpireAt |-> obtainedAt + hardTtlMs, lastRefreshAt |-> now,
   refreshFailures |-> 0]

\* After the constructor, with config.softTtlMs and config.hardTtlMs of any value.
TtlInit ==
  /\ \E s \in TtlValues, h \in TtlValues :
       /\ ttSoft = ClampSoftTtl(s, DEFAULT_SOFT_TTL_MS)
       /\ ttHard = ClampHardTtl(h, DEFAULT_HARD_TTL_MS, ClampSoftTtl(s, DEFAULT_SOFT_TTL_MS))
  /\ ttNow = 0
  /\ ttStore = <<>>
  /\ ttLast = "none"
  /\ RestIdle("tt")

TtlTick ==
  /\ \E t \in TtlNows : t > ttNow /\ ttNow' = t
  /\ UNCHANGED <<ttSoft, ttHard, ttStore, ttLast>>
  /\ Rest("tt")

\* setToken(token, options)
TtlSetToken ==
  /\ \E s \in TtlValues, h \in TtlValues :
       LET softTtlMs == ClampSoftTtl(s, ttSoft)
           hardTtlMs == ClampHardTtl(h, ttHard, softTtlMs)
       IN ttStore' = <<TokenState(ttNow, softTtlMs, hardTtlMs, ttNow)>>
  /\ ttLast' = "set"
  /\ UNCHANGED <<ttSoft, ttHard, ttNow>>
  /\ Rest("tt")

\* performRefresh, the refresher returning a token with any obtainedAt and TTLs
TtlRefreshSucceeds ==
  /\ \E o \in ObtainedValues, s \in TtlValues, h \in TtlValues :
       LET obtainedAt == Coalesce(o, ttNow)
           softTtlMs == ClampSoftTtl(s, ttSoft)
           hardTtlMs == ClampHardTtl(h, ttHard, softTtlMs)
       IN ttStore' = <<TokenState(obtainedAt, softTtlMs, hardTtlMs, ttNow)>>
  /\ ttLast' = "refreshed"
  /\ UNCHANGED <<ttSoft, ttHard, ttNow>>
  /\ Rest("tt")

\* performRefresh, the refresher failing with a usable previous state
TtlRefreshFails ==
  /\ ttStore # <<>>
  /\ ttNow < ttStore[1].hardExpireAt
  /\ ttStore[1].refreshFailures < MaxFailures
  /\ ttStore' = <<[ttStore[1] EXCEPT !.lastRefreshAt = ttNow,
                                     !.refreshFailures = @ + 1]>>
  /\ ttLast' = "degraded"
  /\ UNCHANGED <<ttSoft, ttHard, ttNow>>
  /\ Rest("tt")

TtlNext ==
  \/ TtlTick
  \/ TtlSetToken
  \/ TtlRefreshSucceeds
  \/ TtlRefreshFails

SpecTtl == TtlInit /\ [][TtlNext]_vars

\* C29: every token state stored by setToken or by a successful refresh has
\* softExpireAt >= obtainedAt + 60000 and hardExpireAt >= softExpireAt + 60000,
\* whatever TTLs the configuration, the caller or the refresher gave, and the
\* degraded states stored after failed refreshes keep that order.
C29_ExpiryOrder ==
  ttStore # <<>> =>
    /\ ttStore[1].softExpireAt >= ttStore[1].obtainedAt + 60
    /\ ttStore[1].hardExpireAt >= ttStore[1].softExpireAt + 60

\* A degraded state of a token whose TTLs both came out at their floors.
C29_WitnessDegradedAtFloors ==
  /\ ttLast = "degraded"
  /\ ttSoft = 60 /\ ttHard = 120
  /\ ttStore[1].softExpireAt = ttStore[1].obtainedAt + 60
  /\ ttStore[1].hardExpireAt = ttStore[1].softExpireAt + 60
  /\ ttStore[1].lastRefreshAt > ttStore[1].obtainedAt

(***************************************************************************)
(*   FinancialJuiceClient.requestJson (news/financial-juice-client.ts)     *)
(***************************************************************************)

\* maxRetries of the withRetry call of httpGet
HTTP_MAX_RETRIES == 3

\* What one fetch can end with: a response of some status whose body holds an
\* auth-error pattern or not, or no response at all (status 0: network error or
\* abort by the request timeout).
FetchStatuses == {0, 200, 401, 403, 404, 500}
Response(status, auth) == [ev |-> "fetch", status |-> status, auth |-> auth]
Call(ev) == [ev |-> ev, status |-> 0, auth |-> FALSE]

\* fetch throws, or the operation throws on status >= 500
FetchThrows(r) == r.status = 0 \/ r.status >= 500

isAuthFailureStatusOnly(r) == r.status = 401 \/ r.status = 403

isAuthFailure(r) == r.status = 401 \/ r.status = 403 \/ r.auth

\* ensureHttpSuccess throws
HttpFailed(r) == r.status >= 400

RequestInit ==
  /\ rqPc = "token"
  /\ rqAttempt = 0
  /\ rqSleeping = FALSE
  /\ rqLog = <<>>
  /\ rqResult = "none"
  /\ RestIdle("rq")

\* `await this.tokenManager.getValidToken({ reason: 'startup' })` settles; with
\* a token, httpGet starts its first attempt.
RequestTokenSettles ==
  /\ rqPc = "token"
  /\ \E ok \in BOOLEAN :
       IF ok
         THEN /\ rqPc' = "first"
              /\ rqAttempt' = 1
              /\ rqLog' = Append(rqLog, Call("httpGet"))
              /\ UNCHANGED rqResult
         ELSE /\ rqPc' = "done"
              /\ rqResult' = "error"
              /\ UNCHANGED <<rqAttempt, rqLog>>
  /\ UNCHANGED rqSleeping
  /\ Rest("rq")

\* One attempt of httpGet's operation settles, and requestJson goes on from the
\* result: the retry loop sleeps or gives up, the first result is looked at by
\* isAuthFailure and ensureHttpSuccess, the second by ensureHttpSuccess, and the
\* body is parsed.
HttpAttemptSettles ==
  /\ rqPc \in {"first", "second"}
  /\ ~rqSleeping
  /\ \E status \in FetchStatuses, auth \in BOOLEAN, parses \in BOOLEAN :
       LET r == Response(status, auth)
           done == IF HttpFailed(r) \/ ~parses THEN "error" ELSE "payload"
       IN /\ (status = 0 => ~auth)
          /\ rqLog' = Append(rqLog, r) \o
                        (IF ~FetchThrows(r) /\ rqPc = "first" /\ isAuthFailure(r)
                           THEN <<Call("forceRefresh")>> ELSE <<>>)
          /\ IF FetchThrows(r)
               THEN IF rqAttempt = HTTP_MAX_RETRIES
                      THEN /\ rqPc' = "done" /\ rqResult' = "error"
                           /\ UNCHANGED <<rqAttempt, rqSleeping>>
                      ELSE /\ rqSleeping' = TRUE
                           /\ UNCHANGED <<rqPc, rqAttempt, rqResult>>
               ELSE IF rqPc = "first" /\ isAuthFailure(r)
                      THEN /\ rqPc' = "refresh"
                           /\ UNCHANGED <<rqAttempt, rqSleeping, rqResult>>
                      ELSE /\ rqPc' = "done" /\ rqResult' = done
                           /\ UNCHANGED <<rqAttempt, rqSleeping>>
  /\ Rest("rq")

\* withRetry: `await sleep(delay)` ends, attempt++
HttpRetryWake ==
  /\ rqSleeping
  /\ rqSleeping' = FALSE
  /\ rqAttempt' = rqAttempt + 1
  /\ UNCHANGED <<rqPc, rqLog, rqResult>>
  /\ Rest("rq")

\* `await this.tokenManager.getValidToken({ forceRefresh: true, ... })` settles;
\* with a token, the second httpGet starts.
ForcedRefreshSettles ==
  /\ rqPc = "refresh"
  /\ \E ok \in BOOLEAN :
       IF ok
         THEN /\ rqPc' = "second"
              /\ rqAttempt' = 1
              /\ rqLog' = Append(rqLog, Call("httpGet"))
              /\ UNCHANGED rqResult
         ELSE /\ rqPc' = "done"
              /\ rqResult' = "error"
              /\ UNCHANGED <<rqAttempt, rqLog>>
  /\ UNCHANGED rqSleeping
  /\ Rest("rq")

RequestNext ==
  \/ RequestTokenSettles
  \/ HttpAttemptSettles
  \/ HttpRetryWake
  \/ ForcedRefreshSettles

SpecRequest == RequestInit /\ [][RequestNext]_vars

CallsOf(ev) == {i \in 1..Len(rqLog) : rqLog[i].ev = ev}

\* The fetches of the httpGet call logged at position g.
FetchesOf(g) ==
  {i \in CallsOf("fetch") :
     i > g /\ \A h \in CallsOf("httpGet") : h > g => i < h}

\* The last response of the httpGet at position g; it has one.
Last(S) == CHOOSE i \in S : \A j \in S : j <= i

\* C27: requestJson makes at most one forced token refresh and at most two
\* endpoint requests, each retried at most 3 times on 5xx and network errors
\* only; on an auth failure of the first request (401, 403 or an auth-error
\* body) it forces one refresh and repeats the request once, and a second
\* result of status >= 400 is raised as an error.
C27_OneForcedRefreshTwoRequests ==
  /\ Cardinality(CallsOf("forceRefresh")) <= 1
  /\ Cardinality(CallsOf("httpGet")) <= 2
  /\ \A g \in CallsOf("httpGet") :
       /\ Cardinality(FetchesOf(g)) <= 1 + 3
       /\ \A i \in FetchesOf(g) :
            i # Last(FetchesOf(g)) => (rqLog[i].status = 0 \/ rqLog[i].status >= 500)
  /\ \A f \in CallsOf("forceRefresh") :
       /\ Cardinality({g \in CallsOf("httpGet") : g < f}) = 1
       /\ rqLog[f - 1].ev = "fetch"
       /\ (rqLog[f - 1].status \in {401, 403} \/ rqLog[f - 1].auth)
  /\ \A g \in CallsOf("httpGet") :
       (g > 1) => (rqLog[g - 1].ev = "forceRefresh")
  /\ \A i \in CallsOf("fetch") :
       (/\ rqLog[i].status \in 1..499
        /\ (rqLog[i].status \in {401, 403} \/ rqLog[i].auth)
        /\ Cardinality({g \in CallsOf("httpGet") : g < i}) = 1) =>
         (i < Len(rqLog) /\ rqLog[i + 1].ev = "forceRefresh")
  /\ (rqPc = "done" /\ Cardinality(CallsOf("httpGet")) = 2
        /\ rqLog[Len(rqLog)].status >= 400) => rqResult = "error"

\* The first request failed twice with a server error and then got a 200 whose
\* body says the token expired; after the forced refresh the second request
\* got a 403, which was raised.
C27_WitnessSecondFailureRaised ==
  /\ rqPc = "done" /\ rqResult = "error"
  /\ Len(rqLog) = 7
  /\ rqLog[2].status = 500 /\ rqLog[3].status = 0
  /\ rqLog[4].status = 200 /\ rqLog[4].auth
  /\ rqLog[5].ev = "forceRefresh"
  /\ rqLog[7].status = 403

(***************************************************************************)
(*   JsonFileKvStore (news/kv-store.ts)                                    *)
(***************************************************************************)

KvKeys == {"k1", "k2"}
KvValues == {1, 2}

\* A store is a set of <<key, value>> entries, one per key.
PutIn(store, key, value) == {e \in store : e[1] # key} \cup {<<key, value>>}
DeleteIn(store, key) == {e \in store : e[1] # key}

JsonFile(store) == [state |-> "json", data |-> store]
AbsentFile == [state |-> "absent", data |-> {}]
CorruptFile == [state |-> "corrupt", data |-> {}]

\* The calls: put(key, value) and delete(key).
KvCalls ==
  {[kind |-> "put", key |-> "k1", value |-> 1], [kind |-> "put", key |-> "k1", value |-> 2],
   [kind |-> "put", key |-> "k2", value |-> 1], [kind |-> "delete", key |-> "k1", value |-> 0]}
KvProgramLengths == {2, 3}
KvPrograms(lengths) == UNION {[1..n -> KvCalls] : n \in lengths}

KvInit ==
  /\ kvFile \in {AbsentFile, JsonFile({<<"k2", 2>>})}
  /\ kvProgram \in KvPrograms(KvProgramLengths)
  /\ kvOps = <<>>
  /\ RestIdle("kv")

\* put or delete is called: enqueueWrite chains the work to this.writeQueue.
KvCall ==
  /\ Len(kvOps) < Len(kvProgram)
  /\ kvOps' = Append(kvOps, [call |-> kvProgram[Len(kvOps) + 1], phase |-> "queued",
                              store |-> {}, fresh |-> FALSE, wrote |-> "no",
                              outcome |-> "pending"])
  /\ UNCHANGED <<kvFile, kvProgram>>
  /\ Rest("kv")

KvHeadUnqueued(i) == TRUE

\* this.writeQueue.then(work, work): the work of a call starts once the work
\* of every earlier call has settled, resolved or rejected.
KvHead(i) == \A j \in 1..(i - 1) : kvOps[j].phase = "done"

\* readStore of the work of call i: the entries of the file; {} when there is
\* no file (ENOENT), and {} with a warning when the read fails otherwise or the
\* content does not parse.
KvWorkReads(i) ==
  /\ kvOps[i].phase = "queued"
  /\ KvHead(i)
  /\ \E readFails \in BOOLEAN :
       LET ok == kvFile.state = "json" /\ ~readFails
       IN kvOps' = [kvOps EXCEPT ![i].phase = "read",
                                 ![i].store = IF ok THEN kvFile.data ELSE {},
                                 ![i].fresh = (kvFile.state # "absent" /\ ~ok)]
  /\ UNCHANGED <<kvFile, kvProgram>>
  /\ Rest("kv")

\* The work of call i changes the store it read and writeStore settles: the
\* file holds the changed store, or mkdir or writeFile fails, the file as it was
\* or cut short, and the work rejects.
KvWorkWrites(i) ==
  /\ kvOps[i].phase = "read"
  /\ LET c == kvOps[i].call
         store == IF c.kind = "put" THEN PutIn(kvOps[i].store, c.key, c.value)
                  ELSE DeleteIn(kvOps[i].store, c.key)
     IN \E res \in {"written", "failed", "cut"} :
          /\ kvFile' = IF res = "written" THEN JsonFile(store)
                       ELSE IF res = "cut" THEN CorruptFile ELSE kvFile
          /\ kvOps' = [kvOps EXCEPT ![i].phase = "done", ![i].wrote = res,
                         ![i].outcome = IF res = "written" THEN "resolved" ELSE "rejected"]
  /\ UNCHANGED kvProgram
  /\ Rest("kv")

KvNext ==
  \/ KvCall
  \/ \E i \in DOMAIN kvOps : KvWorkReads(i)
  \/ \E i \in DOMAIN kvOps : KvWorkWrites(i)

SpecKv == KvInit /\ [][KvNext]_vars

\* The read-modify-write steps do not interleave and run in call order; a call
\* is rejected exactly when its own write failed.
KvSerialised ==
  /\ Cardinality({i \in DOMAIN kvOps : kvOps[i].phase = "read"}) <= 1
  /\ \A i, j \in DOMAIN kvOps :
       (i < j /\ kvOps[j].phase # "queued") => kvOps[i].phase = "done"
  /\ \A i \in DOMAIN kvOps :
       kvOps[i].phase = "done" =>
         (kvOps[i].outcome = "rejected" <=> kvOps[i].wrote # "written")

AllSettled == Len(kvOps) = Len(kvProgram) /\ \A i \in DOMAIN kvOps : kvOps[i].phase = "done"

\* The last resolved call on the key of call i is call i itself.
LastResolvedOnKey(i) ==
  /\ kvOps[i].outcome = "resolved"
  /\ \A j \in DOMAIN kvOps :
       (j > i /\ kvOps[j].call.key = kvOps[i].call.key) => kvOps[j].outcome # "resolved"

====
